---- MODULE Spec2Model ----
(***************************************************************************)
(* worktree-setup: the operation planner (operations/src/plan.rs), the     *)
(* operation executor (operations/src/apply.rs, copy.rs, symlink.rs) and   *)
(* the file transfer engine (copy/src/copy.rs, count.rs) over a model of   *)
(* a POSIX filesystem with directories, regular files and symbolic links.  *)
(*                                                                         *)
(* A path (std::path::PathBuf) is a sequence of components; an absolute    *)
(* path starts with the component "/".  The filesystem maps the canonical  *)
(* location of every existing entry (a sequence of names below the root,   *)
(* <<>> being the root directory) to its node.                             *)
(*                                                                         *)
(* A function of the program is an operator of the same name.  Where the   *)
(* code binds an intermediate result and goes on (let x = f()?; ...), the  *)
(* rest of the function is an operator of its own that takes the result    *)
(* as a parameter, so that every result is computed once.                  *)
(***************************************************************************)
EXTENDS Integers, Sequences, FiniteSets, TLC

VARIABLES fs, pc, config, plan, planfs, idx, results, calls, dc,
          unstaged, run, out

vars == <<fs, pc, config, plan, planfs, idx, results, calls, dc, unstaged, run, out>>

-----------------------------------------------------------------------------
(* Paths *)

RootDir == "/"
ParentDir == ".."

\* The deepest chain of symbolic links a lookup follows before ELOOP.
MaxLinks == 2

Front(s) == IF s = <<>> THEN <<>> ELSE SubSeq(s, 1, Len(s) - 1)

IsPrefix(a, b) == Len(a) <= Len(b) /\ SubSeq(b, 1, Len(a)) = a

\* Path::join: an absolute argument replaces the base.
join(base, p) == IF p # <<>> /\ Head(p) = RootDir THEN p ELSE base \o p

\* Path::strip_prefix: Some(rest) when base is a prefix, else None.
strip_prefix(p, base) ==
  IF IsPrefix(base, p)
    THEN [some |-> TRUE, path |-> SubSeq(p, Len(base) + 1, Len(p))]
    ELSE [some |-> FALSE, path |-> <<>>]

\* Path::parent: None for the root and for the empty path.
has_parent(p) == p # <<>> /\ p # <<RootDir>>
parent(p) == Front(p)

-----------------------------------------------------------------------------
(* Filesystem nodes and lookup *)

Empty == ""

DirNode == [kind |-> "dir", content |-> Empty, to |-> <<>>]
FileNode(c) == [kind |-> "file", content |-> c, to |-> <<>>]
LinkNode(t) == [kind |-> "link", content |-> Empty, to |-> t]

\* Path lookup as the kernel does it: component by component from the root,
\* following symbolic links in the middle of the path always and at its end
\* only when follow is set.  st is "found" (at is the entry), "missing" (the
\* parent directory exists, at is where the entry would be created), "noent"
\* (a directory in the middle is missing), "notdir" or "loop".
RECURSIVE Walk(_, _, _, _, _)
Walk(f, cur, comps, follow, fuel) ==
  IF comps = <<>> THEN [st |-> "found", at |-> cur]
  ELSE IF Head(comps) = RootDir THEN Walk(f, <<>>, Tail(comps), follow, fuel)
  ELSE IF f[cur].kind # "dir" THEN [st |-> "notdir", at |-> cur]
  ELSE IF Head(comps) = ParentDir THEN Walk(f, Front(cur), Tail(comps), follow, fuel)
  ELSE IF Append(cur, Head(comps)) \notin DOMAIN f
    THEN [st |-> IF Tail(comps) = <<>> THEN "missing" ELSE "noent",
          at |-> Append(cur, Head(comps))]
  ELSE IF f[Append(cur, Head(comps))].kind = "link" /\ (Tail(comps) # <<>> \/ follow)
    THEN IF fuel = 0 THEN [st |-> "loop", at |-> Append(cur, Head(comps))]
         ELSE Walk(f, cur, f[Append(cur, Head(comps))].to \o Tail(comps), follow, fuel - 1)
  ELSE Walk(f, Append(cur, Head(comps)), Tail(comps), follow, fuel)

\* stat (follow) and lstat (no follow) of a path; the empty path is ENOENT.
Stat(f, p, follow) ==
  IF p = <<>> THEN [st |-> "noent", at |-> <<>>]
  ELSE Walk(f, <<>>, p, follow, MaxLinks)

NodeKind(f, w) == IF w.st = "found" THEN f[w.at].kind ELSE "none"

KindOf(f, p, follow) == NodeKind(f, Stat(f, p, follow))

\* Path::exists, is_dir, is_file follow links; is_symlink does not.
exists(f, p) == KindOf(f, p, TRUE) # "none"
is_dir(f, p) == KindOf(f, p, TRUE) = "dir"
is_file(f, p) == KindOf(f, p, TRUE) = "file"
is_symlink(f, p) == KindOf(f, p, FALSE) = "link"

Put(f, at, node) == [q \in DOMAIN f \cup {at} |-> IF q = at THEN node ELSE f[q]]

Remove(f, gone) == [q \in DOMAIN f \ gone |-> f[q]]

Under(f, at) == {q \in DOMAIN f : IsPrefix(at, q)}

Ok(f) == [ok |-> TRUE, fs |-> f]
Fail(f) == [ok |-> FALSE, fs |-> f]

\* mkdir(2) given the lstat of the path: creates the last component; the
\* errno is kept for create_dir_all.
MkdirAt(f, w) ==
  IF w.st = "missing"
    THEN [ok |-> TRUE, fs |-> Put(f, w.at, DirNode), errno |-> "none"]
    ELSE [ok |-> FALSE, fs |-> f, errno |-> IF w.st = "found" THEN "exist" ELSE w.st]

mkdir(f, p) == MkdirAt(f, Stat(f, p, FALSE))

\* std::fs::create_dir_all: mkdir; on ENOENT create the parent first and
\* retry; any other failure is forgiven when the path is a directory.
RECURSIVE create_dir_all(_, _)

\* The second mkdir, m2, once the parent is there.
CreateDirRetry(f, p, m2) == IF m2.ok \/ is_dir(f, p) THEN Ok(m2.fs) ELSE Fail(f)

\* After the parent's create_dir_all, r.
CreateDirAfterParent(p, r) ==
  IF ~r.ok THEN Fail(r.fs) ELSE CreateDirRetry(r.fs, p, mkdir(r.fs, p))

\* After the first mkdir, m.
CreateDirAfterMkdir(f, p, m) ==
  IF m.ok THEN Ok(m.fs)
  ELSE IF m.errno = "noent" /\ has_parent(p)
    THEN CreateDirAfterParent(p, create_dir_all(f, parent(p)))
  ELSE IF is_dir(f, p) THEN Ok(f)
  ELSE Fail(f)

create_dir_all(f, p) ==
  IF p = <<>> THEN Ok(f) ELSE CreateDirAfterMkdir(f, p, mkdir(f, p))

\* `if let Some(parent) = target.parent() { create_dir_all(parent)? }`
EnsureParent(f, target) ==
  IF has_parent(target) THEN create_dir_all(f, parent(target)) ELSE Ok(f)

\* symlink(2) given the lstat of the new path: never follows a link there.
SymlinkAt(f, link_target, w) ==
  IF w.st = "missing" THEN Ok(Put(f, w.at, LinkNode(link_target))) ELSE Fail(f)

symlink(f, link_target, p) == SymlinkAt(f, link_target, Stat(f, p, FALSE))

\* std::fs::remove_file: unlinks a file or a link, not a directory.
RemoveFileAt(f, w) ==
  IF w.st = "found" /\ f[w.at].kind # "dir" THEN Ok(Remove(f, {w.at})) ELSE Fail(f)

remove_file(f, p) == RemoveFileAt(f, Stat(f, p, FALSE))

\* std::fs::remove_dir_all: a link is unlinked, a directory goes with all below.
RemoveDirAllAt(f, w) ==
  IF w.st # "found" \/ w.at = <<>> THEN Fail(f)
  ELSE IF f[w.at].kind = "link" THEN Ok(Remove(f, {w.at}))
  ELSE IF f[w.at].kind = "dir" THEN Ok(Remove(f, Under(f, w.at)))
  ELSE Fail(f)

remove_dir_all(f, p) == RemoveDirAllAt(f, Stat(f, p, FALSE))

-----------------------------------------------------------------------------
(* copy crate: copy/src/copy.rs, copy/src/count.rs, copy/src/progress.rs *)

\* The progress cadence of the parallel phase of copy_directory.
ReportEvery == 100

\* CopyProgress as the pair the callbacks of the executor pass on.
CopyProgress(files_total, files_copied) == <<files_copied, files_total>>

\* A CopyResult with the filesystem it leaves and the callbacks it made.
Out(res, f, cb, n) == [res |-> res, fs |-> f, cb |-> cb, files_copied |-> n]

\* reflink, else std::fs::copy, given the stat of both paths: the source
\* must be (a link to) a regular file; the target is opened through links
\* with create and truncate, so a target that is the source itself ends up
\* empty.
ReflinkAt(f, s, t) ==
  IF s.st # "found" \/ f[s.at].kind # "file" THEN Fail(f)
  ELSE IF t.st = "missing" THEN Ok(Put(f, t.at, FileNode(f[s.at].content)))
  ELSE IF t.st = "found" /\ f[t.at].kind = "file"
    THEN Ok(Put(f, t.at, FileNode(IF t.at = s.at THEN Empty ELSE f[s.at].content)))
  ELSE Fail(f)

copy_file_with_reflink(f, source, target) ==
  ReflinkAt(f, Stat(f, source, TRUE), Stat(f, target, TRUE))

\* copy_symlink given the lstat of the source: read_link, then a link with
\* the same recorded target.
CopySymlinkAt(f, s, target) ==
  IF s.st # "found" \/ f[s.at].kind # "link" THEN Fail(f)
  ELSE symlink(f, f[s.at].to, target)

copy_symlink(f, source, target) == CopySymlinkAt(f, Stat(f, source, FALSE), target)

\* copy_file and overwrite_file after their checks: the starting report,
\* the parent directories, the copy, the completion report.
TransferDone(c) ==
  IF ~c.ok THEN Out("Error", c.fs, <<CopyProgress(1, 0)>>, 0)
  ELSE Out("Created", c.fs, <<CopyProgress(1, 0), CopyProgress(1, 1)>>, 1)

TransferAfterParent(d, source, target) ==
  IF ~d.ok THEN Out("Error", d.fs, <<CopyProgress(1, 0)>>, 0)
  ELSE TransferDone(copy_file_with_reflink(d.fs, source, target))

TransferFile(f, source, target) ==
  TransferAfterParent(EnsureParent(f, target), source, target)

\* copy_file without its check of the target, for telling the check apart.
copy_file_unchecked(f, source, target) ==
  IF ~exists(f, source) THEN Out("SourceNotFound", f, <<>>, 0)
  ELSE TransferFile(f, source, target)

copy_file(f, source, target) ==
  IF ~exists(f, source) THEN Out("SourceNotFound", f, <<>>, 0)
  ELSE IF exists(f, target) THEN Out("Exists", f, <<>>, 0)
  ELSE TransferFile(f, source, target)

overwrite_file(f, source, target) ==
  IF ~exists(f, source) THEN Out("SourceNotFound", f, <<>>, 0)
  ELSE TransferFile(f, source, target)

\* The path of the entry at q relative to the walk's root at base.
Rel(base, q) == SubSeq(q, Len(base) + 1, Len(q))

\* jwalk::WalkDir below a root, links not followed, given the stat of the
\* root: the location of every entry strictly below it.
WalkBelow(f, r) == IF r.st # "found" THEN {} ELSE Under(f, r.at) \ {r.at}

\* enumerate_directory given the stat of the source: a FileEntry for every
\* entry of the walk that is no directory.
\* The enumeration without the symlinks, for telling the check apart.
EntriesAtFilesOnly(f, r, source, target) ==
  {[source |-> source \o Rel(r.at, q), target |-> join(target, Rel(r.at, q)),
    is_symlink |-> FALSE] :
     q \in {x \in WalkBelow(f, r) : f[x].kind = "file"}}

EntriesAt(f, r, source, target) ==
  {[source |-> source \o Rel(r.at, q), target |-> join(target, Rel(r.at, q)),
    is_symlink |-> f[q].kind = "link"] :
     q \in {x \in WalkBelow(f, r) : f[x].kind # "dir"}}

enumerate_directory(f, source, target) ==
  EntriesAt(f, Stat(f, source, TRUE), source, target)

\* The distinct parent directories of the entries' targets (a BTreeSet).
ParentDirs(entries) == {parent(e.target) : e \in {x \in entries : has_parent(x.target)}}

FirstDir(dirs) == CHOOSE x \in dirs : \A y \in dirs : Len(x) <= Len(y)

RECURSIVE CreateDirs(_, _)
CreateDirsRest(r, rest) == IF r.ok THEN CreateDirs(r.fs, rest) ELSE Fail(r.fs)

\* The directories created only as far as the first of them, for telling
\* the check apart.
CreateDirsFirstOnly(f, dirs) ==
  IF dirs = {} THEN Ok(f) ELSE create_dir_all(f, FirstDir(dirs))

CreateDirs(f, dirs) ==
  IF dirs = {} THEN Ok(f)
  ELSE CreateDirsRest(create_dir_all(f, FirstDir(dirs)), dirs \ {FirstDir(dirs)})

\* One entry of the parallel phase.
CopyEntry(f, e) ==
  IF e.is_symlink THEN copy_symlink(f, e.source, e.target)
  ELSE copy_file_with_reflink(f, e.source, e.target)

NextEntry(entries) == CHOOSE x \in entries : TRUE

RECURSIVE CopyEntries(_, _)
CopyEntriesRest(r, rest) == IF r.ok THEN CopyEntries(r.fs, rest) ELSE Fail(r.fs)

\* The parallel phase with the workers run one after the other.
CopyEntries(f, entries) ==
  IF entries = {} THEN Ok(f)
  ELSE CopyEntriesRest(CopyEntry(f, NextEntry(entries)), entries \ {NextEntry(entries)})

\* The snapshots the workers deliver when run one after the other.
RECURSIVE WorkerReports(_, _)
WorkerReports(k, total) ==
  IF k = 0 THEN <<>>
  ELSE WorkerReports(k - 1, total)
         \o (IF k % ReportEvery = 0 \/ k = total THEN <<CopyProgress(total, k)>> ELSE <<>>)

\* copy_directory after the parallel phase, c.
CopyDirDone(c, total_files) ==
  IF ~c.ok THEN Out("Error", c.fs, <<CopyProgress(total_files, 0)>>, 0)
  ELSE Out("Created", c.fs,
           <<CopyProgress(total_files, 0)>> \o WorkerReports(total_files, total_files)
              \o <<CopyProgress(total_files, total_files)>>,
           total_files)

\* copy_directory after the parent directories were created, d.
CopyDirAfterDirs(d, entries) ==
  IF ~d.ok THEN Out("Error", d.fs, <<CopyProgress(Cardinality(entries), 0)>>, 0)
  ELSE CopyDirDone(CopyEntries(d.fs, entries), Cardinality(entries))

\* The empty source directory: create_dir_all(target), d.
EmptyDirDone(d) == Out(IF d.ok THEN "Created" ELSE "Error", d.fs, <<>>, 0)

\* copy_directory after enumeration.
CopyEnumerated(f, target, entries) ==
  IF entries = {} THEN EmptyDirDone(create_dir_all(f, target))
  ELSE CopyDirAfterDirs(CreateDirs(f, ParentDirs(entries)), entries)

\* copy_directory without its look at the target, for telling the check
\* apart.
copy_directory_onto(f, source, target) ==
  IF ~exists(f, source) THEN Out("SourceNotFound", f, <<>>, 0)
  ELSE CopyEnumerated(f, target, enumerate_directory(f, source, target))

\* copy_directory with its parallel phase run as one step.
copy_directory(f, source, target) ==
  IF ~exists(f, source) THEN Out("SourceNotFound", f, <<>>, 0)
  ELSE IF exists(f, target) THEN Out("Exists", f, <<>>, 0)
  ELSE CopyEnumerated(f, target, enumerate_directory(f, source, target))

\* The walk of count_files given the stat of the path: the entries whose
\* file type is a regular file.
CountAt(f, r) == Cardinality({q \in WalkBelow(f, r) : f[q].kind = "file"})

\* count_files_with_progress: 0 for a missing path and for a link, 1 for a
\* file, else the count of the walk.
count_files(f, path) ==
  IF ~exists(f, path) THEN 0
  ELSE IF is_symlink(f, path) THEN 0
  ELSE IF is_file(f, path) THEN 1
  ELSE IF ~is_dir(f, path) THEN 0
  ELSE CountAt(f, Stat(f, path, TRUE))

-----------------------------------------------------------------------------
(* operations crate: symlink.rs, copy.rs *)

\* An OperationResult (or "Error") with the filesystem left and callbacks.
Res(res, f, cb) == [res |-> res, fs |-> f, cb |-> cb]

\* CopyResult -> OperationResult, as the wrappers map it.
FromCopyResult(r) ==
  CASE r = "Created" -> "Created"
    [] r = "Exists" -> "Exists"
    [] r = "SourceNotFound" -> "Skipped"
    [] OTHER -> "Error"

MapCopyResult(r) == Res(FromCopyResult(r.res), r.fs, r.cb)

\* create_symlink after symlink(2), l.
SymlinkDone(l) == Res(IF l.ok THEN "Created" ELSE "Error", l.fs, <<>>)

\* create_symlink after the removal of what was at the target, r.
SymlinkAfterRemove(r, source, target) ==
  IF ~r.ok THEN Res("Error", r.fs, <<>>)
  ELSE SymlinkDone(symlink(r.fs, source, target))

\* `if target.exists() { if target.is_dir() { remove_dir_all } else { remove_file } }`
RemoveExisting(f, target) ==
  IF ~exists(f, target) THEN Ok(f)
  ELSE IF is_dir(f, target) THEN remove_dir_all(f, target)
  ELSE remove_file(f, target)

\* create_symlink after the parent directory was ensured, d.
SymlinkAfterParent(d, source, target) ==
  IF ~d.ok THEN Res("Error", d.fs, <<>>)
  ELSE SymlinkAfterRemove(RemoveExisting(d.fs, target), source, target)

\* create_symlink with the source checked before the target, for telling
\* the check apart.
create_symlink_source_first(f, source, target) ==
  IF ~exists(f, source) THEN Res("Skipped", f, <<>>)
  ELSE IF is_symlink(f, target) THEN Res("Exists", f, <<>>)
  ELSE SymlinkAfterParent(EnsureParent(f, target), source, target)

create_symlink(f, source, target) ==
  IF is_symlink(f, target) THEN Res("Exists", f, <<>>)
  ELSE IF ~exists(f, source) THEN Res("Skipped", f, <<>>)
  ELSE SymlinkAfterParent(EnsureParent(f, target), source, target)

copy_file_with_progress(f, source, target) ==
  MapCopyResult(copy_file(f, source, target))

\* The mapping that does not look at whether the target existed, for
\* telling the check apart.
MapOverwriteResultBlind(existed, r) == MapCopyResult(r)

\* overwrite_file_with_progress after the transfer, r: Created becomes
\* Overwritten when the target existed before it.
MapOverwriteResult(existed, r) ==
  Res(IF r.res = "Created" /\ existed THEN "Overwritten" ELSE FromCopyResult(r.res),
      r.fs, r.cb)

\* The wrapper that does not record whether the target existed, for
\* telling the check apart.
overwrite_file_with_progress_unrecorded(f, source, target) ==
  IF ~exists(f, source) THEN Res("Skipped", f, <<>>)
  ELSE MapCopyResult(overwrite_file(f, source, target))

overwrite_file_with_progress(f, source, target) ==
  IF ~exists(f, source) THEN Res("Skipped", f, <<>>)
  ELSE MapOverwriteResult(exists(f, target), overwrite_file(f, source, target))

\* copy_directory_with_progress after the parent directory was ensured, d.
CopyDirAfterParent(d, source, target) ==
  IF ~d.ok THEN Res("Error", d.fs, <<>>)
  ELSE MapCopyResult(copy_directory(d.fs, source, target))

copy_directory_with_progress(f, source, target) ==
  CopyDirAfterParent(EnsureParent(f, target), source, target)

-----------------------------------------------------------------------------
(* operations crate: plan.rs *)

\* A declared path is a string: a sequence of components, every leading
\* separator a "/" of its own.  str::strip_prefix('/') takes one off.
str_strip_prefix(s) ==
  IF s # <<>> /\ Head(s) = RootDir THEN [some |-> TRUE, str |-> Tail(s)]
  ELSE [some |-> FALSE, str |-> s]

\* Path::new(str): repeated leading separators are one root component.
RECURSIVE PathOf(_)
PathOf(s) ==
  IF Len(s) >= 2 /\ s[1] = RootDir /\ s[2] = RootDir THEN PathOf(Tail(s)) ELSE s

\* The resolution that never strips a leading separator, for telling the
\* check apart.
resolve_path_unstripped(base, config_relative_dir, path) ==
  <<join(base, join(config_relative_dir, PathOf(path))),
    join(config_relative_dir, PathOf(path))>>

\* resolve_path: <<resolved path, display path>>.
resolve_path(base, config_relative_dir, path) ==
  IF str_strip_prefix(path).some
    THEN <<join(base, PathOf(str_strip_prefix(path).str)), str_strip_prefix(path).str>>
    ELSE <<join(base, join(config_relative_dir, PathOf(path))),
           join(config_relative_dir, PathOf(path))>>

\* The names a directory can hold, in the order glob sorts its matches.
NameOrder ==
  <<"a", "b", "config.json", "d", "data", "f", "file1.txt", "file2.txt", "g", "l",
    "s", "settings.json", "t", "x", "y">>

Wildcard == "*"
BadPattern == "["

RECURSIVE GlobFrom(_, _, _)
RECURSIVE GlobNames(_, _, _, _)

\* What the name NameOrder[i] below base contributes to a wildcard.
GlobName(f, p, rest) ==
  IF KindOf(f, p, FALSE) = "none" THEN <<>>
  ELSE IF rest = <<>> THEN <<p>>
  ELSE IF is_dir(f, p) THEN GlobFrom(f, p, rest)
  ELSE <<>>

\* The matches below base of the names NameOrder[i..], for a wildcard.
GlobNames(f, base, rest, i) ==
  IF i > Len(NameOrder) THEN <<>>
  ELSE GlobName(f, Append(base, NameOrder[i]), rest) \o GlobNames(f, base, rest, i + 1)

GlobFrom(f, base, comps) ==
  IF comps = <<>> THEN <<base>>
  ELSE IF Head(comps) = Wildcard
    THEN IF is_dir(f, base) THEN GlobNames(f, base, Tail(comps), 1) ELSE <<>>
  ELSE IF exists(f, Append(base, Head(comps)))
    THEN GlobFrom(f, Append(base, Head(comps)), Tail(comps))
  ELSE <<>>

\* glob::glob: a PatternError for a malformed pattern, else the matching
\* paths in sorted order.
glob(f, pattern) ==
  IF \E i \in 1..Len(pattern) : pattern[i] = BadPattern
    THEN [ok |-> FALSE, paths |-> <<>>]
  ELSE IF pattern # <<>> /\ Head(pattern) = RootDir
    THEN [ok |-> TRUE, paths |-> GlobFrom(f, <<RootDir>>, Tail(pattern))]
  ELSE [ok |-> TRUE, paths |-> <<>>]

\* The struct PlannedOperation; skip_reason is "none" for None.
PlannedOperation(display_path, operation_type, source, target, file_count, is_directory, will_skip, skip_reason) ==
  [display_path |-> display_path, operation_type |-> operation_type,
   source |-> source, target |-> target, file_count |-> file_count,
   is_directory |-> is_directory, will_skip |-> will_skip,
   skip_reason |-> skip_reason]

\* config.config_dir.strip_prefix(main_worktree).unwrap_or(&config.config_dir)
ConfigRelativeDir(cfg, main_worktree) ==
  IF strip_prefix(cfg.config_dir, main_worktree).some
    THEN strip_prefix(cfg.config_dir, main_worktree).path
    ELSE cfg.config_dir

\* `if is_dir { count_files_with_progress(&source, ..) } else { 1 }`
CountFor(f, source) == IF is_dir(f, source) THEN count_files(f, source) ELSE 1

\* A symlink declaration once its paths are resolved; src is <<source,
\* display_str>>.
PlanSymlinkAt(f, src, target) ==
  IF ~exists(f, src[1])
    THEN PlannedOperation(src[2], "Symlink", src[1], target, 0, FALSE, TRUE, "not found")
  ELSE IF exists(f, target) \/ is_symlink(f, target)
    THEN PlannedOperation(src[2], "Symlink", src[1], target, 0, FALSE, TRUE, "exists")
  ELSE PlannedOperation(src[2], "Symlink", src[1], target, 0, FALSE, FALSE, "none")

PlanSymlink(f, main_worktree, target_worktree, crd, symlink_path) ==
  PlanSymlinkAt(f, resolve_path(main_worktree, crd, symlink_path),
                resolve_path(target_worktree, crd, symlink_path)[1])

\* The copy declaration planned with the target checked before the source,
\* for telling the check apart.
PlanCopyAtTargetFirst(f, src, target) ==
  IF exists(f, target)
    THEN PlannedOperation(src[2], "Copy", src[1], target, 0, FALSE, TRUE, "exists")
  ELSE IF ~exists(f, src[1])
    THEN PlannedOperation(src[2], "Copy", src[1], target, 0, FALSE, TRUE, "not found")
  ELSE PlannedOperation(src[2], "Copy", src[1], target, CountFor(f, src[1]),
                        is_dir(f, src[1]), FALSE, "none")

PlanCopyAt(f, src, target) ==
  IF ~exists(f, src[1])
    THEN PlannedOperation(src[2], "Copy", src[1], target, 0, FALSE, TRUE, "not found")
  ELSE IF exists(f, target)
    THEN PlannedOperation(src[2], "Copy", src[1], target, 0, FALSE, TRUE, "exists")
  ELSE PlannedOperation(src[2], "Copy", src[1], target, CountFor(f, src[1]),
                        is_dir(f, src[1]), FALSE, "none")

PlanCopy(f, main_worktree, target_worktree, crd, copy_path) ==
  PlanCopyAt(f, resolve_path(main_worktree, crd, copy_path),
             resolve_path(target_worktree, crd, copy_path)[1])

\* The overwrite declaration planned as a copy is, skipped when the target
\* exists, for telling the check apart.
PlanOverwriteAtUnlessExists(f, src, target) ==
  IF ~exists(f, src[1])
    THEN PlannedOperation(src[2], "Overwrite", src[1], target, 0, FALSE, TRUE, "not found")
  ELSE IF exists(f, target)
    THEN PlannedOperation(src[2], "Overwrite", src[1], target, 0, FALSE, TRUE, "exists")
  ELSE PlannedOperation(src[2], "Overwrite", src[1], target, CountFor(f, src[1]),
                        is_dir(f, src[1]), FALSE, "none")

PlanOverwriteAt(f, src, target) ==
  IF ~exists(f, src[1])
    THEN PlannedOperation(src[2], "Overwrite", src[1], target, 0, FALSE, TRUE, "not found")
  ELSE PlannedOperation(src[2], "Overwrite", src[1], target, CountFor(f, src[1]),
                        is_dir(f, src[1]), FALSE, "none")

PlanOverwrite(f, main_worktree, target_worktree, crd, overwrite_path) ==
  PlanOverwriteAt(f, resolve_path(main_worktree, crd, overwrite_path),
                  resolve_path(target_worktree, crd, overwrite_path)[1])

\* One glob match with its relative path, display path and target.
PlanGlobMatchAt(f, source, display_path, target) ==
  IF exists(f, target)
    THEN PlannedOperation(display_path, "CopyGlob", source, target, 1, FALSE, TRUE, "exists")
    ELSE PlannedOperation(display_path, "CopyGlob", source, target, 1, FALSE, FALSE, "none")

\* One glob match: nothing when it is not below the search directory.
PlanGlobMatch(f, target_worktree, crd, pattern, search_dir, display_prefix, source) ==
  IF ~strip_prefix(source, search_dir).some THEN <<>>
  ELSE <<PlanGlobMatchAt(f, source,
           IF display_prefix = <<>> THEN strip_prefix(source, search_dir).path
           ELSE join(display_prefix, strip_prefix(source, search_dir).path),
           IF str_strip_prefix(pattern).some
             THEN join(target_worktree, strip_prefix(source, search_dir).path)
             ELSE join(join(target_worktree, crd), strip_prefix(source, search_dir).path))>>

RECURSIVE Flatten(_)
Flatten(ss) == IF ss = <<>> THEN <<>> ELSE Head(ss) \o Flatten(Tail(ss))

\* The operations of the matches g of one pattern: [ok, ops].
PlanGlobMatches(f, target_worktree, crd, pattern, search_dir, display_prefix, g) ==
  [ok |-> g.ok,
   ops |-> Flatten([i \in 1..Len(g.paths) |->
              PlanGlobMatch(f, target_worktree, crd, pattern, search_dir,
                            display_prefix, g.paths[i])])]

\* One pattern once search_dir, display_prefix and glob_pattern are chosen.
PlanGlobIn(f, target_worktree, crd, pattern, search_dir, display_prefix, glob_pattern) ==
  PlanGlobMatches(f, target_worktree, crd, pattern, search_dir, display_prefix,
                  glob(f, join(search_dir, PathOf(glob_pattern))))

\* One pattern of copyGlob.
PlanGlob(f, main_worktree, target_worktree, crd, pattern) ==
  IF str_strip_prefix(pattern).some
    THEN PlanGlobIn(f, target_worktree, crd, pattern, main_worktree, <<>>,
                    str_strip_prefix(pattern).str)
    ELSE PlanGlobIn(f, target_worktree, crd, pattern, join(main_worktree, crd), crd,
                    pattern)

PlanTemplateAt(f, src, tgt) ==
  IF ~exists(f, src[1])
    THEN PlannedOperation(<<src[2], tgt[2]>>, "Template", src[1], tgt[1], 1, FALSE,
                          TRUE, "not found")
  ELSE IF exists(f, tgt[1])
    THEN PlannedOperation(<<src[2], tgt[2]>>, "Template", src[1], tgt[1], 1, FALSE,
                          TRUE, "exists")
  ELSE PlannedOperation(<<src[2], tgt[2]>>, "Template", src[1], tgt[1], 1, FALSE,
                        FALSE, "none")

PlanTemplate(f, main_worktree, target_worktree, crd, template) ==
  PlanTemplateAt(f, resolve_path(main_worktree, crd, template.source),
                 resolve_path(target_worktree, crd, template.target))

\* The operations collected with the copies ahead of the symlinks, for
\* telling the check apart.
PlanCollectedCopiesFirst(syms, copies, overs, globs, temps) ==
  IF \E i \in 1..Len(globs) : ~globs[i].ok
    THEN [ok |-> FALSE, ops |-> <<>>]
    ELSE [ok |-> TRUE,
          ops |-> copies \o syms \o overs
                    \o Flatten([i \in 1..Len(globs) |-> globs[i].ops]) \o temps]

\* The operations collected with a malformed pattern passed over as a
\* pattern without a match, for telling the check apart.
PlanCollectedPassingOver(syms, copies, overs, globs, temps) ==
  [ok |-> TRUE,
   ops |-> syms \o copies \o overs
             \o Flatten([i \in 1..Len(globs) |-> globs[i].ops]) \o temps]

\* The operations vector once every loop has run; globs holds the result
\* of every pattern, the first PatternError ending the function.
PlanCollected(syms, copies, overs, globs, temps) ==
  IF \E i \in 1..Len(globs) : ~globs[i].ok
    THEN [ok |-> FALSE, ops |-> <<>>]
    ELSE [ok |-> TRUE,
          ops |-> syms \o copies \o overs
                    \o Flatten([i \in 1..Len(globs) |-> globs[i].ops]) \o temps]

PlanWith(f, cfg, main_worktree, target_worktree, crd) ==
  PlanCollected(
    [i \in 1..Len(cfg.symlinks) |->
       PlanSymlink(f, main_worktree, target_worktree, crd, cfg.symlinks[i])],
    [i \in 1..Len(cfg.copy) |->
       PlanCopy(f, main_worktree, target_worktree, crd, cfg.copy[i])],
    [i \in 1..Len(cfg.overwrite) |->
       PlanOverwrite(f, main_worktree, target_worktree, crd, cfg.overwrite[i])],
    [i \in 1..Len(cfg.copy_glob) |->
       PlanGlob(f, main_worktree, target_worktree, crd, cfg.copy_glob[i])],
    [i \in 1..Len(cfg.templates) |->
       PlanTemplate(f, main_worktree, target_worktree, crd, cfg.templates[i])])

\* plan_operations_with_progress: Ok(operations) or the PatternError of a
\* malformed glob.  The options are not read.
plan_operations(f, cfg, main_worktree, target_worktree, options) ==
  PlanWith(f, cfg, main_worktree, target_worktree, ConfigRelativeDir(cfg, main_worktree))

\* The unstaged file planned without a look at its source, for telling the
\* check apart.
PlanUnstagedFileUnchecked(f, file, source, target) ==
  <<PlannedOperation(file, "Unstaged", source, target, 1, FALSE, FALSE, "none")>>

PlanUnstagedFile(f, file, source, target) ==
  IF exists(f, source)
    THEN <<PlannedOperation(file, "Unstaged", source, target, 1, FALSE, FALSE, "none")>>
    ELSE <<>>

plan_unstaged_operations(f, unstaged_files, main_worktree, target_worktree) ==
  Flatten([i \in 1..Len(unstaged_files) |->
             PlanUnstagedFile(f, unstaged_files[i],
                              join(main_worktree, PathOf(unstaged_files[i])),
                              join(target_worktree, PathOf(unstaged_files[i])))])

-----------------------------------------------------------------------------
(* operations crate: apply.rs, execute_operation *)

\* The completion report made only after a directory copy that created
\* its target, for telling the check apart.
ExecuteDirectoryDoneCreatedOnly(r, op) ==
  IF r.res # "Created" THEN r
  ELSE Res(r.res, r.fs, Append(r.cb, <<op.file_count, op.file_count>>))

\* A directory operation after copy_directory_with_progress, r: an error
\* is propagated, else the completion report follows.
ExecuteDirectoryDone(r, op) ==
  IF r.res = "Error" THEN r
  ELSE Res(r.res, r.fs, Append(r.cb, <<op.file_count, op.file_count>>))

ExecuteDirectory(f, op) ==
  ExecuteDirectoryDone(copy_directory_with_progress(f, op.source, op.target), op)

\* execute_operation without its look at will_skip, for telling the check
\* apart.
execute_operation_unflagged(f, op) ==
  IF op.operation_type = "Symlink" THEN create_symlink(f, op.source, op.target)
  ELSE IF op.is_directory THEN ExecuteDirectory(f, op)
  ELSE IF op.operation_type \in {"Copy", "CopyGlob", "Template"}
    THEN copy_file_with_progress(f, op.source, op.target)
  ELSE overwrite_file_with_progress(f, op.source, op.target)

execute_operation(f, op) ==
  IF op.will_skip
    THEN Res(IF op.skip_reason = "exists" THEN "Exists" ELSE "Skipped", f, <<>>)
  ELSE IF op.operation_type = "Symlink" THEN create_symlink(f, op.source, op.target)
  ELSE IF op.operation_type \in {"Copy", "CopyGlob", "Template"}
    THEN IF op.is_directory THEN ExecuteDirectory(f, op)
         ELSE copy_file_with_progress(f, op.source, op.target)
  ELSE IF op.is_directory THEN ExecuteDirectory(f, op)
  ELSE overwrite_file_with_progress(f, op.source, op.target)

-----------------------------------------------------------------------------
(* operations crate: apply.rs, apply_config *)

\* One declared entry of apply_config: the function it is given to and the
\* paths built for it.
ApplyItem(kind, fn, path, source, target) ==
  [kind |-> kind, fn |-> fn, path |-> path, source |-> source, target |-> target]

\* `base.join(config_relative_dir).join(path)`
ApplyJoin(base, config_relative_dir, path) ==
  join(join(base, config_relative_dir), PathOf(path))

\* The entry of a declared path of the symlinks, copy or overwrite list.
ApplyPath(kind, fn, main_worktree, target_worktree, crd, path) ==
  ApplyItem(kind, fn, join(crd, PathOf(path)),
            ApplyJoin(main_worktree, crd, path), ApplyJoin(target_worktree, crd, path))

\* The call made for an entry.
ApplyCall(f, it) ==
  CASE it.fn = "create_symlink" -> create_symlink(f, it.source, it.target)
    [] it.fn = "copy_file" -> copy_file_with_progress(f, it.source, it.target)
    [] it.fn = "overwrite_file" -> overwrite_file_with_progress(f, it.source, it.target)

\* `let op_result = f(&source, &target)?; result.<kind>.push(..)`, r being
\* what the call returned.
ApplyRecorded(st, it, r) ==
  IF r.res = "Error" THEN [ok |-> FALSE, fs |-> r.fs, records |-> st.records]
  ELSE [ok |-> TRUE, fs |-> r.fs,
        records |-> Append(st.records,
                      [kind |-> it.kind, path |-> it.path, source |-> it.source,
                       target |-> it.target, result |-> r.res])]

\* One loop of apply_config over its entries; an error ends the function.
\* st is the state of apply_config between two of its calls: whether it is
\* still running, the filesystem, and the records pushed so far, in the
\* order of the calls (the kind tells which vector of ApplyResult holds
\* the record).
RECURSIVE ApplyItems(_, _)
ApplyItems(st, items) ==
  IF ~st.ok \/ items = <<>> THEN st
  ELSE ApplyItems(ApplyRecorded(st, Head(items), ApplyCall(st.fs, Head(items))),
                  Tail(items))

\* The entries of the matches g of one pattern: those below search_dir.
ApplyGlobItems(g, search_dir, target_worktree, crd) ==
  Flatten([i \in 1..Len(g.paths) |->
     IF ~strip_prefix(g.paths[i], search_dir).some THEN <<>>
     ELSE <<ApplyItem("copy_glob", "copy_file",
                      join(crd, strip_prefix(g.paths[i], search_dir).path),
                      g.paths[i],
                      join(join(target_worktree, crd),
                           strip_prefix(g.paths[i], search_dir).path))>>])

\* One pattern, g being what glob::glob returned for it.
ApplyGlobbed(st, g, search_dir, target_worktree, crd) ==
  IF ~g.ok THEN [ok |-> FALSE, fs |-> st.fs, records |-> st.records]
  ELSE ApplyItems(st, ApplyGlobItems(g, search_dir, target_worktree, crd))

\* The loop over copyGlob.
RECURSIVE ApplyGlobs(_, _, _, _, _)
ApplyGlobs(st, patterns, search_dir, target_worktree, crd) ==
  IF ~st.ok \/ patterns = <<>> THEN st
  ELSE ApplyGlobs(ApplyGlobbed(st, glob(st.fs, join(search_dir, PathOf(Head(patterns)))),
                               search_dir, target_worktree, crd),
                  Tail(patterns), search_dir, target_worktree, crd)

\* The loop over the unstaged files, when should_copy_unstaged.
ApplyUnstaged(st, should_copy_unstaged, files, main_worktree, target_worktree) ==
  IF ~st.ok \/ ~should_copy_unstaged THEN st
  ELSE ApplyItems(st,
         SelectSeq([i \in 1..Len(files) |->
                      ApplyItem("unstaged", "overwrite_file", files[i],
                                join(main_worktree, PathOf(files[i])),
                                join(target_worktree, PathOf(files[i])))],
                   LAMBDA it : exists(st.fs, it.source)))

\* apply_config with the configuration-relative directory crd; files is
\* what git status lists.
ApplyWith(f, cfg, main_worktree, target_worktree, crd, should_copy_unstaged, files) ==
  ApplyUnstaged(
    ApplyItems(
      ApplyGlobs(
        ApplyItems([ok |-> TRUE, fs |-> f, records |-> <<>>],
          [i \in 1..Len(cfg.symlinks) |->
             ApplyPath("symlinks", "create_symlink", main_worktree, target_worktree, crd,
                       cfg.symlinks[i])]
          \o [i \in 1..Len(cfg.copy) |->
             ApplyPath("copy", "copy_file", main_worktree, target_worktree, crd,
                       cfg.copy[i])]
          \o [i \in 1..Len(cfg.overwrite) |->
             ApplyPath("overwrite", "overwrite_file", main_worktree, target_worktree, crd,
                       cfg.overwrite[i])]),
        cfg.copy_glob, join(main_worktree, crd), target_worktree, crd),
      [i \in 1..Len(cfg.templates) |->
         ApplyItem("templates", "copy_file",
                   <<join(crd, PathOf(cfg.templates[i].source)),
                     join(crd, PathOf(cfg.templates[i].target))>>,
                   ApplyJoin(main_worktree, crd, cfg.templates[i].source),
                   ApplyJoin(target_worktree, crd, cfg.templates[i].target))]),
    should_copy_unstaged, files, main_worktree, target_worktree)

\* options.copy_unstaged.unwrap_or(config.config.copy_unstaged)
ShouldCopyUnstaged(cfg, options) ==
  IF options = "None" THEN cfg.copy_unstaged ELSE options = "Some(true)"

apply_config(f, cfg, main_worktree, target_worktree, options, files) ==
  ApplyWith(f, cfg, main_worktree, target_worktree, ConfigRelativeDir(cfg, main_worktree),
            ShouldCopyUnstaged(cfg, options), files)

-----------------------------------------------------------------------------
(* The worktrees and the inputs drawn for them *)

main_worktree == <<RootDir, "S">>
target_worktree == <<RootDir, "T">>

\* A filesystem from a set of <<location, node>> pairs.
MkFs(pairs) ==
  [q \in {pr[1] : pr \in pairs} |-> (CHOOSE pr \in pairs : pr[1] = q)[2]]

BaseTree == {<< <<>>, DirNode >>, << <<"S">>, DirNode >>, << <<"T">>, DirNode >>}

\* The source worktree: a file f, and a directory d holding a file, a
\* relative link to it and a nested file.
SourceFile == { {}, {<< <<"S", "f">>, FileNode("c1") >>} }

FlatDir == {<< <<"S", "d">>, DirNode >>, << <<"S", "d", "x">>, FileNode("c1") >>}
LinkInDir == {<< <<"S", "d", "l">>, LinkNode(<<"x">>) >>}
NestedInDir == {<< <<"S", "d", "s">>, DirNode >>, << <<"S", "d", "s", "y">>, FileNode("c2") >>}

SourceDir == { {}, FlatDir \cup LinkInDir \cup NestedInDir }

\* The target worktree: f absent, a differing file, a dangling link or a
\* directory; d absent, a directory with a differing file, or a link to the
\* source's d (as a symlink operation leaves it).
TargetFile ==
  { {}, {<< <<"T", "f">>, FileNode("c3") >>},
    {<< <<"T", "f">>, LinkNode(<<"g">>) >>},
    {<< <<"T", "f">>, DirNode >>} }

TargetDir ==
  { {}, {<< <<"T", "d">>, DirNode >>, << <<"T", "d", "x">>, FileNode("c3") >>},
    {<< <<"T", "d">>, LinkNode(<<RootDir, "S", "d">>) >>} }

TreesOf(sf, sd, tf, td) ==
  {MkFs(BaseTree \cup a \cup b \cup c \cup d) : a \in sf, b \in sd, c \in tf, d \in td}

InitTrees == TreesOf(SourceFile, SourceDir, TargetFile, TargetDir)

\* The most declarations one configuration holds (copyUnstaged = true
\* counting as one).
MaxDecls == 2

DeclaredPaths == {<<"f">>, <<"d">>, <<RootDir, "d">>}
DeclaredGlobs == {<<Wildcard>>, <<RootDir, "d", Wildcard>>, <<BadPattern>>}
DeclaredTemplates ==
  {[source |-> <<"f">>, target |-> <<"t">>],
   [source |-> <<RootDir, "f">>, target |-> <<"f">>]}

Decls ==
  {[kind |-> k, val |-> v] : k \in {"symlinks", "copy", "overwrite"}, v \in DeclaredPaths}
    \cup {[kind |-> "copy_glob", val |-> v] : v \in DeclaredGlobs}
    \cup {[kind |-> "templates", val |-> v] : v \in DeclaredTemplates}
    \cup {[kind |-> "copy_unstaged", val |-> <<>>]}

\* The values of the declarations of kind k, in their order.
RECURSIVE OfKind(_, _)
OfKind(ds, k) ==
  IF ds = <<>> THEN <<>>
  ELSE (IF Head(ds).kind = k THEN <<Head(ds).val>> ELSE <<>>) \o OfKind(Tail(ds), k)

\* The LoadedConfig holding the declarations ds, its file in the directory dir.
LoadedConfig(ds, dir) ==
  [symlinks |-> OfKind(ds, "symlinks"), copy |-> OfKind(ds, "copy"),
   overwrite |-> OfKind(ds, "overwrite"), copy_glob |-> OfKind(ds, "copy_glob"),
   templates |-> OfKind(ds, "templates"),
   copy_unstaged |-> OfKind(ds, "copy_unstaged") # <<>>,
   config_dir |-> dir]

SeqsUpTo(S, n) == UNION {[1..m -> S] : m \in 0..n}

Configs == {LoadedConfig(ds, main_worktree) : ds \in SeqsUpTo(Decls, MaxDecls)}

\* The lists plan_unstaged_operations is given: file names relative to the
\* repository root, as git status lists them or as a caller orders them.
UnstagedLists == {<< <<"f">> >>, << <<"d", "x">>, <<"g">>, <<"f">> >>}

\* ApplyConfigOptions.copy_unstaged
Options == {"None", "Some(true)", "Some(false)"}

NoConfig == LoadedConfig(<<>>, main_worktree)

\* The worktrees of the crate's tests: data/ with two files, config.json
\* and settings.json in the main worktree, a differing settings.json in the
\* target; and the configuration that names them.
ExampleTree ==
  MkFs(BaseTree \cup
       {<< <<"S", "data">>, DirNode >>,
        << <<"S", "data", "file1.txt">>, FileNode("c1") >>,
        << <<"S", "data", "file2.txt">>, FileNode("c2") >>,
        << <<"S", "config.json">>, FileNode("c1") >>,
        << <<"S", "settings.json">>, FileNode("c2") >>,
        << <<"T", "settings.json">>, FileNode("c3") >>})

ExampleConfig ==
  LoadedConfig(<<[kind |-> "symlinks", val |-> <<"data">>],
                 [kind |-> "copy", val |-> <<"config.json">>],
                 [kind |-> "overwrite", val |-> <<"settings.json">>]>>,
               main_worktree)
NoCopy == [phase |-> "idle"]

\* The run of the tool under way: its number, the filesystem it started on
\* and the number of results recorded before it.
FirstRun(f) == [n |-> 1, started |-> f, first |-> 0]

-----------------------------------------------------------------------------
(* Planning and executing a configuration: plan_operations, then            *)
(* execute_operation on every operation in order, stopping at an error;     *)
(* then, when copyUnstaged is set, plan_unstaged_operations and its         *)
(* operations.                                                              *)

Init ==
  /\ \/ fs \in InitTrees /\ config \in Configs
     \/ fs = ExampleTree /\ config = ExampleConfig
  /\ pc = "plan"
  /\ plan = <<>>
  /\ planfs = fs
  /\ idx = 1
  /\ results = <<>>
  /\ calls = <<>>
  /\ dc = NoCopy
  /\ unstaged = <<>>
  /\ run = FirstRun(fs)
  /\ out = <<>>

\* What is kept of one execute_operation: the operation, the result, the
\* callbacks, the filesystem before and after, and the filesystem the
\* operation was planned on.
Record(op, r, before, planned) ==
  [op |-> op, res |-> r.res, cb |-> r.cb, before |-> before, after |-> r.fs,
   planned |-> planned]

Planned(r) ==
  /\ plan' = r.ops
  /\ pc' = IF r.ok THEN "execute" ELSE "failed"

\* The planner that prepares the target worktree while it plans, for
\* telling the check apart.
PlanOperationsPreparing ==
  /\ pc = "plan"
  /\ \E options \in Options :
       Planned(plan_operations(fs, config, main_worktree, target_worktree, options))
  /\ planfs' = fs
  /\ fs' = create_dir_all(fs, target_worktree \o <<"n">>).fs
  /\ UNCHANGED <<config, idx, results, calls, dc, unstaged, run, out>>

PlanOperations ==
  /\ pc = "plan"
  /\ \E options \in Options :
       Planned(plan_operations(fs, config, main_worktree, target_worktree, options))
  /\ planfs' = fs
  /\ UNCHANGED <<fs, config, idx, results, calls, dc, unstaged, run, out>>

Executed(op, r) ==
  /\ fs' = r.fs
  /\ results' = Append(results, Record(op, r, fs, planfs))
  /\ pc' = IF r.res = "Error" THEN "failed" ELSE pc

ExecuteOperation ==
  /\ pc \in {"execute", "execute_unstaged"}
  /\ idx <= Len(plan)
  /\ Executed(plan[idx], execute_operation(fs, plan[idx]))
  /\ idx' = idx + 1
  /\ UNCHANGED <<config, plan, planfs, calls, dc, unstaged, run, out>>

PlanUnstaged ==
  /\ pc = "execute"
  /\ idx > Len(plan)
  /\ config.copy_unstaged
  /\ \E files \in UnstagedLists :
       /\ unstaged' = files
       /\ plan' = plan \o plan_unstaged_operations(fs, files, main_worktree, target_worktree)
  /\ planfs' = fs
  /\ pc' = "execute_unstaged"
  /\ UNCHANGED <<fs, config, idx, results, calls, dc, run, out>>

Finish ==
  /\ \/ pc = "execute" /\ ~config.copy_unstaged
     \/ pc = "execute_unstaged"
  /\ idx > Len(plan)
  /\ pc' = "done"
  /\ UNCHANGED <<fs, config, plan, planfs, idx, results, calls, dc, unstaged, run, out>>

\* The tool is run a second time on the tree the first run left: every
\* operation of the first plan was executed without an error.
RunAgain ==
  /\ pc = "execute"
  /\ idx > Len(plan)
  /\ run.n = 1
  /\ run' = [n |-> 2, started |-> fs, first |-> Len(results)]
  /\ pc' = "plan"
  /\ plan' = <<>>
  /\ planfs' = fs
  /\ idx' = 1
  /\ UNCHANGED <<fs, config, results, calls, dc, unstaged, out>>

Next == PlanOperations \/ ExecuteOperation \/ PlanUnstaged \/ Finish \/ RunAgain

Spec == Init /\ [][Next]_vars

-----------------------------------------------------------------------------
(* The functions of the two crates called on their own: one call, then the  *)
(* same call again, up to MaxCalls calls in a row.                          *)

\* The most calls in a row.
MaxCalls == 2

ApiSources ==
  {<<RootDir, "S", "f">>, <<RootDir, "S", "d">>, <<RootDir, "S", "d", "x">>,
   <<RootDir, "S", "d", "l">>, <<RootDir, "S", "g">>}

ApiTargets ==
  {<<RootDir, "T", "f">>, <<RootDir, "T", "d">>, <<RootDir, "T", "d", "x">>,
   <<RootDir, "T", "n", "f">>}

OperationTypes == {"Symlink", "Copy", "Overwrite", "CopyGlob", "Template", "Unstaged"}

\* Operations a caller can build: any kind, either flag, any skip reason.
\* The source and target of the operations built: a file and a directory
\* onto either, and a file below the directory onto its counterpart.
ApiPairs ==
  ({<<RootDir, "S", "f">>, <<RootDir, "S", "d">>}
     \X {<<RootDir, "T", "f">>, <<RootDir, "T", "d">>})
    \cup {<< <<RootDir, "S", "d", "x">>, <<RootDir, "T", "d", "x">> >>}

ApiOps ==
  {PlannedOperation(<<"p">>, ty, st[1], st[2], IF d THEN 2 ELSE 1, d, w, why) :
     ty \in OperationTypes, st \in ApiPairs,
     d \in BOOLEAN, w \in BOOLEAN, why \in {"none", "exists", "not found", "other"}}

InitApi ==
  /\ fs \in InitTrees
  /\ config = NoConfig
  /\ pc = "api"
  /\ plan = <<>>
  /\ planfs = fs
  /\ idx = 1
  /\ results = <<>>
  /\ calls = <<>>
  /\ dc = NoCopy
  /\ unstaged = <<>>
  /\ run = FirstRun(fs)
  /\ out = <<>>

\* The first call, or the last call again.
Callable(fn, source, target) ==
  \/ calls = <<>> /\ results = <<>>
  \/ /\ calls # <<>>
     /\ Len(calls) < MaxCalls
     /\ calls[Len(calls)].fn = fn
     /\ calls[Len(calls)].source = source
     /\ calls[Len(calls)].target = target

\* A call of the copy crate returned r.
CopyCalled(fn, source, target, r) ==
  /\ fs' = r.fs
  /\ calls' = Append(calls, [fn |-> fn, source |-> source, target |-> target,
                             res |-> r.res, cb |-> r.cb, n |-> r.files_copied,
                             before |-> fs, after |-> r.fs])

\* A call of the operations crate returned r.
OpCalled(fn, source, target, r) ==
  /\ fs' = r.fs
  /\ calls' = Append(calls, [fn |-> fn, source |-> source, target |-> target,
                             res |-> r.res, cb |-> r.cb, n |-> 0,
                             before |-> fs, after |-> r.fs])

CallCopyFile ==
  /\ pc = "api"
  /\ \E source \in ApiSources, target \in ApiTargets :
       /\ Callable("copy_file", source, target)
       /\ CopyCalled("copy_file", source, target, copy_file(fs, source, target))
  /\ UNCHANGED <<pc, config, plan, planfs, idx, results, dc, unstaged, run, out>>

CallOverwriteFile ==
  /\ pc = "api"
  /\ \E source \in ApiSources, target \in ApiTargets :
       /\ Callable("overwrite_file", source, target)
       /\ CopyCalled("overwrite_file", source, target, overwrite_file(fs, source, target))
  /\ UNCHANGED <<pc, config, plan, planfs, idx, results, dc, unstaged, run, out>>

CallCopyDirectory ==
  /\ pc = "api"
  /\ \E source \in ApiSources, target \in ApiTargets :
       /\ Callable("copy_directory", source, target)
       /\ CopyCalled("copy_directory", source, target, copy_directory(fs, source, target))
  /\ UNCHANGED <<pc, config, plan, planfs, idx, results, dc, unstaged, run, out>>

CallCountFiles ==
  /\ pc = "api"
  /\ \E path \in ApiSources \cup ApiTargets :
       /\ Callable("count_files", path, <<>>)
       /\ CopyCalled("count_files", path, <<>>,
                     Out("Count", fs, <<>>, count_files(fs, path)))
  /\ UNCHANGED <<pc, config, plan, planfs, idx, results, dc, unstaged, run, out>>

CallCreateSymlink ==
  /\ pc = "api"
  /\ \E source \in ApiSources, target \in ApiTargets :
       /\ Callable("create_symlink", source, target)
       /\ OpCalled("create_symlink", source, target, create_symlink(fs, source, target))
  /\ UNCHANGED <<pc, config, plan, planfs, idx, results, dc, unstaged, run, out>>

\* execute_operation on an operation built by the caller, and again.
CallExecuteOperation ==
  /\ pc = "api"
  /\ calls = <<>>
  /\ Len(results) < MaxCalls
  /\ \E op \in ApiOps :
       /\ results # <<>> => results[Len(results)].op = op
       /\ Executed(op, execute_operation(fs, op))
  /\ UNCHANGED <<config, plan, planfs, idx, calls, dc, unstaged, run, out>>

NextApi ==
  \/ CallCopyFile \/ CallOverwriteFile \/ CallCopyDirectory \/ CallCountFiles
  \/ CallCreateSymlink \/ CallExecuteOperation

SpecApi == InitApi /\ [][NextApi]_vars

-----------------------------------------------------------------------------
(* copy_directory with its parallel phase step by step: the calling thread  *)
(* enumerates and creates the directories, every entry is taken by one      *)
(* worker of the pool, which copies it, increments the counter, reads it,   *)
(* and when due takes a snapshot and delivers it; the calling thread        *)
(* returns when every entry is through.                                     *)

EmptySourceDir == {<< <<"S", "d">>, DirNode >>}

DirSourceTrees ==
  { {}, EmptySourceDir, FlatDir, FlatDir \cup LinkInDir,
    FlatDir \cup LinkInDir \cup NestedInDir }

DirTargetTrees ==
  { {}, {<< <<"T", "d">>, DirNode >>}, {<< <<"T", "d">>, LinkNode(<<"g">>) >>} }

DirTrees == TreesOf({{}}, DirSourceTrees, {{}}, DirTargetTrees)

DirSources == {<<RootDir, "S", "d">>}
DirTargets == {<<RootDir, "T", "d">>, <<RootDir, "T", "n", "d">>}

InitDir ==
  /\ fs \in DirTrees
  /\ config = NoConfig
  /\ pc = "dir"
  /\ plan = <<>>
  /\ planfs = fs
  /\ idx = 1
  /\ results = <<>>
  /\ calls = <<>>
  /\ dc = NoCopy
  /\ unstaged = <<>>
  /\ run = FirstRun(fs)
  /\ out = <<>>

\* copy_directory returned r without a parallel phase.
DirReturned(source, target, r) ==
  /\ fs' = r.fs
  /\ dc' = [phase |-> "done", source |-> source, target |-> target, entries |-> {},
            total |-> 0, pos |-> <<>>, seen |-> <<>>, snap |-> <<>>, counter |-> 0,
            copies |-> 0,
            reports |-> r.cb, res |-> r.res, n |-> r.files_copied, before |-> fs]

\* After the parent directories were created, d: the parallel phase begins.
DirPrepared(source, target, entries, d) ==
  IF ~d.ok
    THEN DirReturned(source, target, CopyDirAfterDirs(d, entries))
    ELSE /\ fs' = d.fs
         /\ dc' = [phase |-> "copying", source |-> source, target |-> target,
                   entries |-> entries, total |-> Cardinality(entries),
                   pos |-> [e \in entries |-> "todo"],
                   seen |-> [e \in entries |-> 0],
                   snap |-> [e \in entries |-> 0],
                   counter |-> 0, copies |-> 0,
                   reports |-> <<CopyProgress(Cardinality(entries), 0)>>,
                   res |-> "none", n |-> 0, before |-> fs]

DirEnumerated(source, target, entries) ==
  IF entries = {}
    THEN DirReturned(source, target, EmptyDirDone(create_dir_all(fs, target)))
    ELSE DirPrepared(source, target, entries, CreateDirs(fs, ParentDirs(entries)))

\* The calling thread up to the parallel phase.
DirBegin ==
  /\ pc = "dir"
  /\ dc.phase = "idle"
  /\ \E source \in DirSources, target \in DirTargets :
       IF ~exists(fs, source)
         THEN DirReturned(source, target, Out("SourceNotFound", fs, <<>>, 0))
       ELSE IF exists(fs, target)
         THEN DirReturned(source, target, Out("Exists", fs, <<>>, 0))
       ELSE DirEnumerated(source, target, enumerate_directory(fs, source, target))
  /\ UNCHANGED <<pc, config, plan, planfs, idx, results, calls, unstaged, run, out>>

\* The worker's copy of the entry e returned c.
WorkerCopied(e, c) ==
  /\ fs' = c.fs
  /\ dc' = [dc EXCEPT !.pos[e] = IF c.ok THEN "copied" ELSE "failed",
                      !.copies = IF c.ok THEN @ + 1 ELSE @]

\* A worker takes the entry e and copies it; the copy can fail on the
\* device (no space, no permission, an I/O error), writing nothing.  A
\* worker that took its entry before another one failed still copies it.
WorkerCopy ==
  /\ pc = "dir"
  /\ dc.phase = "copying"
  /\ \E e \in dc.entries, device_ok \in BOOLEAN :
       /\ dc.pos[e] = "todo"
       /\ WorkerCopied(e, IF device_ok THEN CopyEntry(fs, e) ELSE Fail(fs))
  /\ UNCHANGED <<pc, config, plan, planfs, idx, results, calls, unstaged, run, out>>

\* tracker.increment_copied()
WorkerIncrement ==
  /\ pc = "dir"
  /\ dc.phase = "copying"
  /\ \E e \in dc.entries :
       /\ dc.pos[e] = "copied"
       /\ dc' = [dc EXCEPT !.pos[e] = "counted", !.counter = @ + 1]
  /\ UNCHANGED <<fs, pc, config, plan, planfs, idx, results, calls, unstaged, run, out>>

\* `let copied = tracker.copied(); if copied % 100 == 0 || copied == total_files`
WorkerRead ==
  /\ pc = "dir"
  /\ dc.phase = "copying"
  /\ \E e \in dc.entries :
       /\ dc.pos[e] = "counted"
       /\ dc' = [dc EXCEPT !.seen[e] = dc.counter,
                           !.pos[e] = IF dc.counter % ReportEvery = 0
                                         \/ dc.counter = dc.total
                                        THEN "reporting" ELSE "through"]
  /\ UNCHANGED <<fs, pc, config, plan, planfs, idx, results, calls, unstaged, run, out>>

\* tracker.snapshot(..): the counter is read again.
WorkerSnapshot ==
  /\ pc = "dir"
  /\ dc.phase = "copying"
  /\ \E e \in dc.entries :
       /\ dc.pos[e] = "reporting"
       /\ dc' = [dc EXCEPT !.snap[e] = dc.counter, !.pos[e] = "delivering"]
  /\ UNCHANGED <<fs, pc, config, plan, planfs, idx, results, calls, unstaged, run, out>>

\* on_progress(&snapshot)
WorkerDeliver ==
  /\ pc = "dir"
  /\ dc.phase = "copying"
  /\ \E e \in dc.entries :
       /\ dc.pos[e] = "delivering"
       /\ dc' = [dc EXCEPT !.reports = Append(@, CopyProgress(dc.total, dc.snap[e])),
                           !.pos[e] = "through"]
  /\ UNCHANGED <<fs, pc, config, plan, planfs, idx, results, calls, unstaged, run, out>>

\* The end of copy_directory that takes the parallel phase for a success
\* whatever its workers returned, for telling the check apart.
DirResultUnchecked(d) ==
  [d EXCEPT !.phase = "done", !.res = "Created", !.n = d.total,
            !.reports = Append(@, CopyProgress(d.total, d.counter))]

\* `.try_for_each(..)?`, then the final report and Ok(Created).
DirResult(d) ==
  IF \E e \in d.entries : d.pos[e] = "failed"
    THEN [d EXCEPT !.phase = "done", !.res = "Error"]
    ELSE [d EXCEPT !.phase = "done", !.res = "Created", !.n = d.total,
                   !.reports = Append(@, CopyProgress(d.total, d.counter))]

\* try_for_each is over: every entry is through, or one failed and no
\* worker is in the middle of an entry.  On success the final report.
DirReturn ==
  /\ pc = "dir"
  /\ dc.phase = "copying"
  /\ \A e \in dc.entries : dc.pos[e] \in {"through", "failed", "todo"}
  /\ \/ \A e \in dc.entries : dc.pos[e] = "through"
     \/ \E e \in dc.entries : dc.pos[e] = "failed"
  /\ dc' = DirResult(dc)
  /\ UNCHANGED <<fs, pc, config, plan, planfs, idx, results, calls, unstaged, run, out>>

NextDir ==
  \/ DirBegin \/ WorkerCopy \/ WorkerIncrement \/ WorkerRead \/ WorkerSnapshot
  \/ WorkerDeliver \/ DirReturn

SpecDir == InitDir /\ [][NextDir]_vars

-----------------------------------------------------------------------------
(* Planning alone, for a configuration file at any depth below the main     *)
(* worktree and declarations of either relativity.                          *)

\* Where the configuration file can be: the root of the main worktree, a
\* directory below it, a directory below that.
ConfigDirs ==
  {main_worktree, main_worktree \o <<"a">>, main_worktree \o <<"a", "b">>}

\* The main worktree with a file f and a directory d at its root and below
\* the directories of the configuration files.
NestedSource ==
  {<< <<"S", "f">>, FileNode("c1") >>,
   << <<"S", "d">>, DirNode >>, << <<"S", "d", "x">>, FileNode("c1") >>,
   << <<"S", "a">>, DirNode >>, << <<"S", "a", "f">>, FileNode("c2") >>,
   << <<"S", "a", "b">>, DirNode >>, << <<"S", "a", "b", "f">>, FileNode("c2") >>,
   << <<"d">>, DirNode >>, << <<"d", "x">>, FileNode("c3") >>}

NestedTarget ==
  { {}, {<< <<"T", "f">>, FileNode("c3") >>},
    {<< <<"T", "a">>, DirNode >>, << <<"T", "a", "f">>, FileNode("c3") >>} }

NestedTrees == TreesOf({NestedSource}, {{}}, NestedTarget, {{}})

\* Declared paths: config-relative, root-relative, and root-relative
\* written with a doubled separator.
NestedPaths == {<<"f">>, <<"b", "f">>, <<RootDir, "f">>, <<RootDir, "d">>,
                <<RootDir, RootDir, "d">>}
NestedGlobs == {<<Wildcard>>, <<RootDir, "d", Wildcard>>, <<RootDir, RootDir, "d", Wildcard>>}
NestedTemplates ==
  {[source |-> <<RootDir, "f">>, target |-> <<"t">>],
   [source |-> <<"f">>, target |-> <<RootDir, "t">>],
   [source |-> <<"f">>, target |-> <<"t">>],
   [source |-> <<RootDir, "f">>, target |-> <<RootDir, "t">>]}

NestedDecls ==
  {[kind |-> k, val |-> v] : k \in {"symlinks", "copy", "overwrite"}, v \in NestedPaths}
    \cup {[kind |-> "copy_glob", val |-> v] : v \in NestedGlobs}
    \cup {[kind |-> "templates", val |-> v] : v \in NestedTemplates}

NestedConfigs ==
  {LoadedConfig(ds, dir) : ds \in SeqsUpTo(NestedDecls, MaxDecls), dir \in ConfigDirs}

InitPlan ==
  /\ fs \in NestedTrees
  /\ config \in NestedConfigs
  /\ pc = "plan"
  /\ plan = <<>>
  /\ planfs = fs
  /\ idx = 1
  /\ results = <<>>
  /\ calls = <<>>
  /\ dc = NoCopy
  /\ unstaged = <<>>
  /\ run = FirstRun(fs)
  /\ out = <<>>

NextPlan == PlanOperations

SpecPlan == InitPlan /\ [][NextPlan]_vars

-----------------------------------------------------------------------------
(* The command line tool, cli/src/main.rs: every operation of the selected  *)
(* configuration is planned, then the operations are gone through in order, *)
(* a skipped one displayed with its reason, any other executed and          *)
(* displayed with its result; an error ends the run.                        *)

\* ProgressManager::print_result: one line with a mark, the label and the text.
print_result(label, result, is_success) ==
  [label |-> label, text |-> result, success |-> is_success, files |-> 0]

\* ProgressManager::print_result_with_count
print_result_with_count(label, result, file_count) ==
  [label |-> label, text |-> result, success |-> TRUE, files |-> file_count]

\* The text that names a result regardless of the kind of the operation,
\* for telling the check apart.
format_result_string_by_kind(result, op_type) ==
  CASE op_type = "Symlink" -> "symlink"
    [] op_type = "Template" -> "created"
    [] OTHER -> "copied"

format_result_string(result, op_type) ==
  CASE result = "Created" /\ op_type = "Symlink" -> "symlink"
    [] result = "Created" /\ op_type \in {"Copy", "CopyGlob"} -> "copied"
    [] result = "Created" /\ op_type = "Template" -> "created"
    [] result = "Created" /\ op_type = "Unstaged" -> "copied"
    [] result = "Created" /\ op_type = "Overwrite" -> "copied"
    [] result = "Overwritten" -> "overwritten"
    [] result = "Exists" -> "exists"
    [] result = "Skipped" -> "skipped"

InitCli ==
  /\ fs \in InitTrees
  /\ config \in Configs
  /\ pc = "cli_plan"
  /\ plan = <<>>
  /\ planfs = fs
  /\ idx = 1
  /\ results = <<>>
  /\ calls = <<>>
  /\ dc = NoCopy
  /\ unstaged = <<>>
  /\ run = FirstRun(fs)
  /\ out = <<>>

\* `let ops = plan_operations(..)?; all_operations.extend(ops);`
CliPlanned(r) ==
  /\ plan' = r.ops
  /\ pc' = IF r.ok THEN "cli_execute" ELSE "cli_failed"

CliPlan ==
  /\ pc = "cli_plan"
  /\ \E options \in Options :
       CliPlanned(plan_operations(fs, config, main_worktree, target_worktree, options))
  /\ planfs' = fs
  /\ UNCHANGED <<fs, config, idx, results, calls, dc, unstaged, run, out>>

\* `if op.will_skip { print_result(.., reason, false); continue; }`
CliSkipped(op) ==
  /\ out' = Append(out, print_result(op.display_path,
                                     IF op.skip_reason = "none" THEN "skipped"
                                     ELSE op.skip_reason, FALSE))
  /\ idx' = idx + 1
  /\ UNCHANGED <<fs, pc, results>>

\* After `execute_operation(op, ..)?` returned r: an error leaves the loop
\* and the function, any other result is printed, with the file count for
\* a directory of more than one file.
CliExecuted(op, r) ==
  /\ fs' = r.fs
  /\ results' = Append(results, Record(op, r, fs, planfs))
  /\ IF r.res = "Error"
       THEN pc' = "cli_failed" /\ UNCHANGED <<idx, out>>
       ELSE /\ pc' = pc
            /\ idx' = idx + 1
            /\ out' = Append(out,
                 IF op.is_directory /\ op.file_count > 1
                   THEN print_result_with_count(op.display_path,
                          format_result_string(r.res, op.operation_type), op.file_count)
                   ELSE print_result(op.display_path,
                          format_result_string(r.res, op.operation_type), TRUE))

\* One turn of `for op in &all_operations`.
CliOperation ==
  /\ pc = "cli_execute"
  /\ idx <= Len(plan)
  /\ IF plan[idx].will_skip THEN CliSkipped(plan[idx])
     ELSE CliExecuted(plan[idx], execute_operation(fs, plan[idx]))
  /\ UNCHANGED <<config, plan, planfs, calls, dc, unstaged, run>>

\* The loop is over: progress_mgr.clear()
CliFinish ==
  /\ pc = "cli_execute"
  /\ idx > Len(plan)
  /\ pc' = "cli_done"
  /\ UNCHANGED <<fs, config, plan, planfs, idx, results, calls, dc, unstaged, run, out>>

NextCli == CliPlan \/ CliOperation \/ CliFinish

SpecCli == InitCli /\ [][NextCli]_vars

-----------------------------------------------------------------------------
(* The progress reports of copy_directory for a directory of more entries   *)
(* than the report cadence, copied by a pool of MaxWorkers threads: every   *)
(* thread takes the next entry, copies it, increments the counter, reads    *)
(* it, and when due takes a snapshot and calls the callback.  The copies    *)
(* themselves are those of the workers above and succeed.                   *)

\* The threads of the pool.
MaxWorkers == 2

\* The numbers of entries: below the cadence, and one past it.
DirSizes == {2, ReportEvery + 1}

\* A thread between two entries: the locals of the closure are gone.
IdleWorker == [at |-> "idle", seen |-> 0, snap |-> 0]

\* After ProgressTracker::new, set_total and the initial report.
InitPool ==
  /\ fs = MkFs(BaseTree)
  /\ config = NoConfig
  /\ pc = "pool"
  /\ plan = <<>>
  /\ planfs = fs
  /\ idx = 1
  /\ results = <<>>
  /\ calls = <<>>
  /\ \E total_files \in DirSizes :
       dc = [phase |-> "copying", total |-> total_files, taken |-> 0, counter |-> 0,
             reports |-> <<CopyProgress(total_files, 0)>>, res |-> "none",
             worker |-> [k \in 1..MaxWorkers |-> IdleWorker]]
  /\ unstaged = <<>>
  /\ run = FirstRun(fs)
  /\ out = <<>>

\* A thread takes the next entry and copies it.
PoolCopy ==
  /\ pc = "pool"
  /\ dc.phase = "copying"
  /\ dc.taken < dc.total
  /\ \E k \in 1..MaxWorkers :
       /\ dc.worker[k].at = "idle"
       /\ dc' = [dc EXCEPT !.taken = @ + 1, !.worker[k].at = "copied"]
  /\ UNCHANGED <<fs, pc, config, plan, planfs, idx, results, calls, unstaged, run, out>>

\* The increment as a load and a store apart, so that two threads that
\* load the same value store the same value, for telling the check apart.
PoolIncrementLossy ==
  /\ pc = "pool"
  /\ \E k \in 1..MaxWorkers :
       /\ dc.worker[k].at = "copied"
       /\ dc' = [dc EXCEPT !.counter = @ + 1,
                           !.worker = [j \in 1..MaxWorkers |->
                              IF dc.worker[j].at = "copied"
                                THEN [dc.worker[j] EXCEPT !.at = "counted"]
                                ELSE dc.worker[j]]]
  /\ UNCHANGED <<fs, pc, config, plan, planfs, idx, results, calls, unstaged, run, out>>

\* tracker.increment_copied()
PoolIncrement ==
  /\ pc = "pool"
  /\ \E k \in 1..MaxWorkers :
       /\ dc.worker[k].at = "copied"
       /\ dc' = [dc EXCEPT !.counter = @ + 1, !.worker[k].at = "counted"]
  /\ UNCHANGED <<fs, pc, config, plan, planfs, idx, results, calls, unstaged, run, out>>

\* `let copied = tracker.copied(); if copied % 100 == 0 || copied == total_files`
PoolRead ==
  /\ pc = "pool"
  /\ \E k \in 1..MaxWorkers :
       /\ dc.worker[k].at = "counted"
       /\ dc' = [dc EXCEPT !.worker[k] =
                    IF dc.counter % ReportEvery = 0 \/ dc.counter = dc.total
                      THEN [at |-> "reporting", seen |-> dc.counter, snap |-> 0]
                      ELSE IdleWorker]
  /\ UNCHANGED <<fs, pc, config, plan, planfs, idx, results, calls, unstaged, run, out>>

\* tracker.snapshot(..): the counter is read again.
PoolSnapshot ==
  /\ pc = "pool"
  /\ \E k \in 1..MaxWorkers :
       /\ dc.worker[k].at = "reporting"
       /\ dc' = [dc EXCEPT !.worker[k].snap = dc.counter, !.worker[k].at = "delivering"]
  /\ UNCHANGED <<fs, pc, config, plan, planfs, idx, results, calls, unstaged, run, out>>

\* on_progress(&snapshot)
PoolDeliver ==
  /\ pc = "pool"
  /\ \E k \in 1..MaxWorkers :
       /\ dc.worker[k].at = "delivering"
       /\ dc' = [dc EXCEPT !.reports = Append(@, CopyProgress(dc.total, dc.worker[k].snap)),
                           !.worker[k] = IdleWorker]
  /\ UNCHANGED <<fs, pc, config, plan, planfs, idx, results, calls, unstaged, run, out>>

\* try_for_each is over; the final report; Ok(Created).
PoolReturn ==
  /\ pc = "pool"
  /\ dc.phase = "copying"
  /\ dc.taken = dc.total
  /\ \A k \in 1..MaxWorkers : dc.worker[k].at = "idle"
  /\ dc' = [dc EXCEPT !.phase = "done", !.res = "Created",
                      !.reports = Append(@, CopyProgress(dc.total, dc.counter))]
  /\ UNCHANGED <<fs, pc, config, plan, planfs, idx, results, calls, unstaged, run, out>>

NextPool ==
  \/ PoolCopy \/ PoolIncrement \/ PoolRead \/ PoolSnapshot \/ PoolDeliver \/ PoolReturn

SpecPool == InitPool /\ [][NextPool]_vars

-----------------------------------------------------------------------------
(* apply_config beside plan_operations and execute_operation: apply_config  *)
(* is run on the initial trees and what it returns and leaves is kept;      *)
(* then the same trees are planned and the plan executed in order.          *)

InitApply ==
  /\ fs \in InitTrees
  /\ config \in {c \in Configs : ~c.copy_unstaged}
  /\ pc = "apply"
  /\ plan = <<>>
  /\ planfs = fs
  /\ idx = 1
  /\ results = <<>>
  /\ calls = <<>>
  /\ dc = NoCopy
  /\ unstaged = <<>>
  /\ run = FirstRun(fs)
  /\ out = <<>>

ApplyConfig ==
  /\ pc = "apply"
  /\ \E options \in Options, files \in UnstagedLists :
       /\ unstaged' = IF ShouldCopyUnstaged(config, options) THEN files ELSE <<>>
       /\ LET r == apply_config(fs, config, main_worktree, target_worktree, options, files)
          IN  calls' = <<[fn |-> "apply_config",
                          copy_unstaged |-> ShouldCopyUnstaged(config, options),
                          res |-> IF r.ok THEN "Ok" ELSE "Error", records |-> r.records,
                          before |-> fs, after |-> r.fs]>>
  /\ pc' = "plan"
  /\ UNCHANGED <<fs, config, plan, planfs, idx, results, dc, run, out>>

NextApply == ApplyConfig \/ PlanOperations \/ ExecuteOperation

SpecApply == InitApply /\ [][NextApply]_vars

-----------------------------------------------------------------------------
(* Planning and executing for declared paths of any spelling and for a      *)
(* configuration file inside or outside the main worktree.                  *)

\* Configurations loaded from the main worktree or from the directory
\* outside it, whose declared paths are plain, have a segment "..", are
\* root-relative, or are root-relative with a doubled separator.
SpelledConfigs ==
  LET paths == {<<"f">>, <<ParentDir, "d", "x">>, <<RootDir, "f">>, <<RootDir, RootDir, "d">>}
      decls == {[kind |-> k, val |-> v] : k \in {"symlinks", "copy", "overwrite"}, v \in paths}
                 \cup {[kind |-> "copy_unstaged", val |-> <<>>]}
  IN  {LoadedConfig(ds, dir) : ds \in SeqsUpTo(decls, MaxDecls),
                               dir \in {main_worktree, <<RootDir, "e">>}}

\* The trees of the nested configurations with a directory "e" outside both
\* worktrees and a file in it.
InitSpelled ==
  /\ fs \in TreesOf({NestedSource \cup {<< <<"e">>, DirNode >>,
                                        << <<"e", "f">>, FileNode("c3") >>}},
                    {{}}, NestedTarget, {{}})
  /\ config \in SpelledConfigs
  /\ pc = "plan"
  /\ plan = <<>>
  /\ planfs = fs
  /\ idx = 1
  /\ results = <<>>
  /\ calls = <<>>
  /\ dc = NoCopy
  /\ unstaged = <<>>
  /\ run = FirstRun(fs)
  /\ out = <<>>

SpecSpelled == InitSpelled /\ [][Next]_vars

-----------------------------------------------------------------------------
(* Properties *)

\* The executions whose operation ran on the filesystem it was planned on.
OnPlannedState(r) == r.before = r.planned

\* C1: for every operation run on the very filesystem it was planned on,
\* forecast and result agree: skipped for "exists" gives Exists, skipped
\* for "not found" gives Skipped, and an operation not marked will_skip
\* never gives Exists or Skipped.
C1_ForecastAgrees ==
  \A i \in 1..Len(results) :
    OnPlannedState(results[i]) =>
      /\ (results[i].op.will_skip /\ results[i].op.skip_reason = "exists")
            => results[i].res = "Exists"
      /\ (results[i].op.will_skip /\ results[i].op.skip_reason = "not found")
            => results[i].res = "Skipped"
      /\ ~results[i].op.will_skip => results[i].res \notin {"Exists", "Skipped"}

\* The path is free: nothing is there, not even a dangling link, and its
\* parent directory is there or can be created.
Free(f, p) == KindOf(f, p, FALSE) = "none" /\ EnsureParent(f, p).ok

IsCopyCall(c) == c.fn \in {"copy_file", "copy_directory"}

\* The source is what the function copies: a file, or a directory.
CopiesKind(c) ==
  IF c.fn = "copy_file" THEN is_file(c.before, c.source) ELSE is_dir(c.before, c.source)

\* C2: copy_file and copy_directory are idempotent: with an existing source
\* of the function's kind and a free target the first call returns Created,
\* the same call after a Created returns Exists and changes nothing, and
\* whenever source and target both exist the call returns Exists and
\* changes nothing.
C2_CopyIdempotent ==
  \A i \in 1..Len(calls) :
    IsCopyCall(calls[i]) =>
      /\ (CopiesKind(calls[i]) /\ Free(calls[i].before, calls[i].target))
            => calls[i].res = "Created"
      /\ (i > 1 /\ calls[i - 1].res = "Created")
            => (calls[i].res = "Exists" /\ calls[i].after = calls[i].before)
      /\ (exists(calls[i].before, calls[i].source) /\ exists(calls[i].before, calls[i].target))
            => (calls[i].res = "Exists" /\ calls[i].after = calls[i].before)

\* A directory of three entries copied, and the same call again.
C2_Witness ==
  /\ Len(calls) = 2
  /\ calls[1].fn = "copy_directory"
  /\ calls[1].res = "Created"
  /\ calls[1].n = 3
  /\ calls[2].res = "Exists"

\* std::fs::read_to_string given the stat of the path: the content of the
\* file there, "none" when there is no file to read.
ReadAt(f, w) ==
  IF w.st = "found" /\ f[w.at].kind = "file" THEN f[w.at].content ELSE "none"

read_to_string(f, p) == ReadAt(f, Stat(f, p, TRUE))

\* C3: a successful overwrite_file of an existing source file leaves the
\* target with the content the source had, whatever was at the target, and
\* leaves the source as it was.
C3_OverwriteWins ==
  \A i \in 1..Len(calls) :
    (calls[i].fn = "overwrite_file" /\ is_file(calls[i].before, calls[i].source)
       /\ calls[i].res = "Created")
      => /\ read_to_string(calls[i].after, calls[i].target)
              = read_to_string(calls[i].before, calls[i].source)
         /\ read_to_string(calls[i].after, calls[i].source)
              = read_to_string(calls[i].before, calls[i].source)

\* The entries below a directory that are no directories: its plain files
\* and its symlinks, found without following links.
NonDirectoriesBelow(f, p) ==
  {q \in WalkBelow(f, Stat(f, p, TRUE)) : f[q].kind # "dir"}

\* C4: count_files returns 0 for a path that does not exist or is a
\* symlink, 1 for a single file, and for a directory the number of entries
\* below it that are no directories, plain files and symlinks alike.
C4_CountsFilesAndLinks ==
  \A i \in 1..Len(calls) :
    calls[i].fn = "count_files" =>
      calls[i].n =
        IF ~exists(calls[i].before, calls[i].source)
             \/ is_symlink(calls[i].before, calls[i].source) THEN 0
        ELSE IF is_file(calls[i].before, calls[i].source) THEN 1
        ELSE Cardinality(NonDirectoriesBelow(calls[i].before, calls[i].source))

\* The relative paths of the entries below p that are no directories.
RelativeEntries(f, p) ==
  {Rel(Stat(f, p, TRUE).at, q) : q \in NonDirectoriesBelow(f, p)}

\* The node at the relative path rel below p.
NodeBelow(f, p, rel) == f[Stat(f, p, TRUE).at \o rel]

\* C5: when copy_directory returns Created, whatever the interleaving of
\* the workers, the target holds exactly the source's non-directory entries
\* at the same relative paths, files with the source's content and links
\* with the source link's recorded target, every entry was copied once,
\* files_copied is their number, and the filesystem is the one the entries
\* copied one after the other leave.
C5_EveryEntryOnce ==
  (dc.phase = "done" /\ dc.res = "Created") =>
    /\ RelativeEntries(fs, dc.target) = RelativeEntries(dc.before, dc.source)
    /\ \A rel \in RelativeEntries(dc.before, dc.source) :
         NodeBelow(fs, dc.target, rel) = NodeBelow(dc.before, dc.source, rel)
    /\ dc.n = Cardinality(NonDirectoriesBelow(dc.before, dc.source))
    /\ dc.copies = dc.n
    /\ fs = copy_directory(dc.before, dc.source, dc.target).fs

\* Two files, one of them nested, and a symlink copied by the workers.
C5_Witness ==
  /\ dc.phase = "done"
  /\ dc.res = "Created"
  /\ dc.n = 3
  /\ \E e \in dc.entries : e.is_symlink

\* C6: on the filesystem it was planned on, a copy whose source does not
\* exist is skipped for "not found", also when the target exists; a copy
\* whose source and target exist is skipped for "exists"; an overwrite
\* whose source exists is not skipped, whether or not its target exists.
C6_SkipReasons ==
  pc = "execute" =>
    \A i \in 1..Len(plan) :
      /\ (plan[i].operation_type = "Copy" /\ ~exists(planfs, plan[i].source))
            => (plan[i].will_skip /\ plan[i].skip_reason = "not found")
      /\ (plan[i].operation_type = "Copy" /\ exists(planfs, plan[i].source)
            /\ exists(planfs, plan[i].target))
            => (plan[i].will_skip /\ plan[i].skip_reason = "exists")
      /\ (plan[i].operation_type = "Overwrite" /\ exists(planfs, plan[i].source))
            => ~plan[i].will_skip

\* A copy without source and with a target, next to an overwrite with both.
C6_Witness ==
  /\ pc = "execute"
  /\ \E i \in 1..Len(plan) :
       /\ plan[i].operation_type = "Copy"
       /\ ~exists(planfs, plan[i].source)
       /\ exists(planfs, plan[i].target)
       /\ plan[i].skip_reason = "not found"
  /\ \E i \in 1..Len(plan) :
       /\ plan[i].operation_type = "Overwrite"
       /\ exists(planfs, plan[i].source)
       /\ exists(planfs, plan[i].target)
       /\ ~plan[i].will_skip

\* C7: execute_operation on an operation marked will_skip returns Exists
\* when the reason is "exists" and Skipped for any other or no reason,
\* never fails, makes no progress callback, and leaves the filesystem as it
\* was, whatever the kind and whatever is at the source and the target.
C7_SkipIsNoOp ==
  \A i \in 1..Len(results) :
    results[i].op.will_skip =>
      /\ results[i].res = IF results[i].op.skip_reason = "exists" THEN "Exists" ELSE "Skipped"
      /\ results[i].cb = <<>>
      /\ results[i].after = results[i].before

\* A skipped overwrite without a reason whose source and target both exist.
C7_Witness ==
  \E i \in 1..Len(results) :
    /\ results[i].op.will_skip
    /\ results[i].op.operation_type = "Overwrite"
    /\ results[i].op.skip_reason = "none"
    /\ is_file(results[i].before, results[i].op.source)
    /\ is_file(results[i].before, results[i].op.target)
    /\ results[i].res = "Skipped"

IsOverwriteOfFile(op) ==
  ~op.will_skip /\ ~op.is_directory /\ op.operation_type \in {"Overwrite", "Unstaged"}

read_link(f, p) == f[Stat(f, p, FALSE).at].to

\* C9: create_symlink decides in this order: a target that is a symlink
\* gives Exists and no change, even without a source; else an absent source
\* gives Skipped and no change; else whatever file or directory is at the
\* target is removed, a symlink to the source path as given is there
\* instead, and the result is Created; the same call after a Created gives
\* Exists.
C9_SymlinkOrder ==
  \A i \in 1..Len(calls) :
    calls[i].fn = "create_symlink" =>
      /\ is_symlink(calls[i].before, calls[i].target)
            => (calls[i].res = "Exists" /\ calls[i].after = calls[i].before)
      /\ (~is_symlink(calls[i].before, calls[i].target)
            /\ ~exists(calls[i].before, calls[i].source))
            => (calls[i].res = "Skipped" /\ calls[i].after = calls[i].before)
      /\ (~is_symlink(calls[i].before, calls[i].target)
            /\ exists(calls[i].before, calls[i].source)
            /\ EnsureParent(calls[i].before, calls[i].target).ok)
            => /\ calls[i].res = "Created"
               /\ is_symlink(calls[i].after, calls[i].target)
               /\ read_link(calls[i].after, calls[i].target) = calls[i].source
               /\ Under(calls[i].after, Stat(calls[i].after, calls[i].target, FALSE).at)
                    = {Stat(calls[i].after, calls[i].target, FALSE).at}
      /\ (i > 1 /\ calls[i - 1].res = "Created")
            => (calls[i].res = "Exists" /\ calls[i].after = calls[i].before)

\* A directory with a file in it replaced by a symlink, and the call again.
C9_Witness ==
  /\ Len(calls) = 2
  /\ calls[1].fn = "create_symlink"
  /\ is_dir(calls[1].before, calls[1].target)
  /\ ~is_symlink(calls[1].before, calls[1].target)
  /\ Cardinality(Under(calls[1].before, Stat(calls[1].before, calls[1].target, FALSE).at)) > 1
  /\ calls[1].res = "Created"
  /\ calls[2].res = "Exists"

\* The place of a kind in the order of the plan.
KindRank(ty) ==
  CASE ty = "Symlink" -> 1 [] ty = "Copy" -> 2 [] ty = "Overwrite" -> 3
    [] ty = "CopyGlob" -> 4 [] ty = "Template" -> 5 [] OTHER -> 6

OpsOfKind(ops, ty) == SelectSeq(ops, LAMBDA op : op.operation_type = ty)

\* The operations of kind ty are one per declared path, in declared order.
OnePerDeclaration(ops, ty, declared) ==
  /\ Len(OpsOfKind(ops, ty)) = Len(declared)
  /\ \A k \in 1..Len(declared) :
       /\ OpsOfKind(ops, ty)[k].source
            = resolve_path(main_worktree, ConfigRelativeDir(config, main_worktree),
                           declared[k])[1]
       /\ OpsOfKind(ops, ty)[k].target
            = resolve_path(target_worktree, ConfigRelativeDir(config, main_worktree),
                           declared[k])[1]

\* C10: the plan of plan_operations is ordered Symlink, Copy, Overwrite,
\* CopyGlob, Template, holds exactly one operation per symlink, copy,
\* overwrite and template declaration in declared order, skipped or not,
\* and holds no Unstaged operation, whatever copyUnstaged and the options.
C10_PlanOrder ==
  pc = "execute" =>
    /\ \A i, j \in 1..Len(plan) :
         i < j => KindRank(plan[i].operation_type) <= KindRank(plan[j].operation_type)
    /\ OnePerDeclaration(plan, "Symlink", config.symlinks)
    /\ OnePerDeclaration(plan, "Copy", config.copy)
    /\ OnePerDeclaration(plan, "Overwrite", config.overwrite)
    /\ Len(OpsOfKind(plan, "Template")) = Len(config.templates)
    /\ \A k \in 1..Len(config.templates) :
         OpsOfKind(plan, "Template")[k].source
           = resolve_path(main_worktree, ConfigRelativeDir(config, main_worktree),
                          config.templates[k].source)[1]
    /\ \A i \in 1..Len(plan) : plan[i].operation_type # "Unstaged"

\* A skipped symlink ahead of a copy that is not skipped.
C10_Witness ==
  /\ pc = "execute"
  /\ Len(plan) = 2
  /\ plan[1].operation_type = "Symlink"
  /\ plan[1].will_skip
  /\ plan[2].operation_type = "Copy"
  /\ ~plan[2].will_skip

\* The directory of the configuration file relative to the main worktree.
ConfigDirBelowRoot == Rel(main_worktree, config.config_dir)

\* The rule of resolution, stated on its own: a path that begins with a
\* separator loses it and goes below the base, the rest being the label
\* (when the rest begins with a separator again, Path::join takes it as
\* absolute); any other path goes below the base and the directory of the
\* configuration file, the label being the path below the base.
ResolvesTo(base, p) ==
  IF Head(p) = RootDir
    THEN IF Tail(p) # <<>> /\ Head(Tail(p)) = RootDir
           THEN <<join(base, PathOf(Tail(p))), Tail(p)>>
           ELSE <<base \o Tail(p), Tail(p)>>
    ELSE <<base \o ConfigDirBelowRoot \o p, ConfigDirBelowRoot \o p>>

\* The operations of kind ty follow the rule for the paths declared.
ResolvedByRule(ty, declared) ==
  /\ Len(OpsOfKind(plan, ty)) = Len(declared)
  /\ \A k \in 1..Len(declared) :
       /\ OpsOfKind(plan, ty)[k].source = ResolvesTo(main_worktree, declared[k])[1]
       /\ OpsOfKind(plan, ty)[k].target = ResolvesTo(target_worktree, declared[k])[1]
       /\ OpsOfKind(plan, ty)[k].display_path = ResolvesTo(main_worktree, declared[k])[2]

C12_SameRelativePath ==
  pc = "execute" =>
    \A i \in 1..Len(plan) :
      plan[i].operation_type \in {"Symlink", "Copy", "Overwrite", "CopyGlob"} =>
        /\ strip_prefix(plan[i].source, main_worktree).some
        /\ strip_prefix(plan[i].target, target_worktree).some
        /\ strip_prefix(plan[i].source, main_worktree).path
             = strip_prefix(plan[i].target, target_worktree).path
        /\ plan[i].display_path = strip_prefix(plan[i].source, main_worktree).path

\* C13: planning is read-only: a step of plan_operations or of
\* plan_unstaged_operations, succeeding or failing, leaves every file,
\* directory and symlink of both trees as it was, and the filesystem only
\* ever changes in a step of execute_operation.
C13_PlanningReadOnly ==
  [][/\ (pc = "plan" \/ (pc = "execute" /\ pc' = "execute_unstaged")) => fs' = fs
     /\ fs' # fs => /\ pc \in {"execute", "execute_unstaged"}
                    /\ pc' \in {pc, "failed"}
                    /\ Len(results') = Len(results) + 1]_vars

\* A directory counted and a pattern expanded by the planner, nothing
\* executed yet.
C13_Witness ==
  /\ pc = "execute"
  /\ idx = 1
  /\ run.n = 1
  /\ fs = run.started
  /\ \E i \in 1..Len(plan) : plan[i].is_directory /\ plan[i].file_count = 2
  /\ \E i \in 1..Len(plan) : plan[i].operation_type = "CopyGlob"

\* The target worktree: every entry at or below it.
TargetTree(f) ==
  [q \in Under(f, Stat(f, target_worktree, TRUE).at) |-> f[q]]

\* The results of the operations of plan_operations in the second run.
SecondRun ==
  {i \in (run.first + 1)..Len(results) : results[i].op.operation_type # "Unstaged"}

Classification(text) ==
  CASE text \in {"symlink", "copied", "created"} -> "Created"
    [] text = "overwritten" -> "Overwritten"
    [] text = "exists" -> "Exists"
    [] text = "skipped" -> "Skipped"
    [] OTHER -> "none"

\* The operations among the first n of the plan that are not skipped.
NotSkippedUpTo(n) == {j \in 1..n : ~plan[j].will_skip}

\* The lines displayed are those of the first n operations, in plan order:
\* the skip reason of a skipped operation, else the result its execution
\* returned.
DisplayedUpTo(n) ==
  /\ Len(out) = n
  /\ \A i \in 1..n :
       /\ out[i].label = plan[i].display_path
       /\ plan[i].will_skip => out[i].text = plan[i].skip_reason
       /\ ~plan[i].will_skip =>
            /\ results[Cardinality(NotSkippedUpTo(i))].op = plan[i]
            /\ results[Cardinality(NotSkippedUpTo(i))].res
                 \in {"Created", "Exists", "Skipped", "Overwritten"}
            /\ Classification(out[i].text) = results[Cardinality(NotSkippedUpTo(i))].res

\* C15: the loop of the command line tool handles the planned operations in
\* plan order and displays exactly one line for each, the skip reason of a
\* skipped operation and else the result of its execution; when an
\* execution fails nothing is displayed for it, no later operation is
\* executed or displayed, and the run has ended with the error.
C15_OneLinePerOperation ==
  /\ [](pc = "cli_execute" =>
          /\ DisplayedUpTo(idx - 1)
          /\ Len(results) = Cardinality(NotSkippedUpTo(idx - 1)))
  /\ [](pc = "cli_done" => DisplayedUpTo(Len(plan)))
  /\ []((pc = "cli_failed" /\ results # <<>>) =>
          /\ DisplayedUpTo(idx - 1)
          /\ Len(results) = Cardinality(NotSkippedUpTo(idx))
          /\ results[Len(results)].op = plan[idx]
          /\ results[Len(results)].res = "Error"
          /\ \A i \in 1..(Len(results) - 1) : results[i].res # "Error")
  /\ [][pc # "cli_failed"]_vars

\* A skipped operation displayed with its reason, then an operation whose
\* execution failed: one line, and the run over.
C15_Witness ==
  /\ pc = "cli_failed"
  /\ Len(plan) = 2
  /\ idx = 2
  /\ plan[1].will_skip
  /\ out = <<print_result(plan[1].display_path, plan[1].skip_reason, FALSE)>>
  /\ Len(results) = 1
  /\ results[1].res = "Error"

\* The entry's copy is on disk: at its target is what is at its source.
Written(f, e) ==
  /\ KindOf(f, e.target, FALSE) # "none"
  /\ f[Stat(f, e.target, FALSE).at] = dc.before[Stat(dc.before, e.source, FALSE).at]

\* copy_directory got as far as creating the directories and that failed.
DirectoryCreationFailed ==
  /\ exists(dc.before, dc.source)
  /\ ~exists(dc.before, dc.target)
  /\ enumerate_directory(dc.before, dc.source, dc.target) # {}
  /\ ~CreateDirs(dc.before,
                 ParentDirs(enumerate_directory(dc.before, dc.source, dc.target))).ok

\* A worker's copy of an entry failed: the entry was taken and is not on disk.
EntryCopyFailed ==
  \E e \in dc.entries : dc.pos[e] # "todo" /\ ~Written(fs, e)

\* C16: when creating a parent directory or copying an entry fails,
\* copy_directory returns an error and not Created, no report of completion
\* is delivered, and every entry a worker has copied is still on disk.
C16_FailFastNoRollback ==
  (dc.phase = "done" /\ (DirectoryCreationFailed \/ EntryCopyFailed)) =>
    /\ dc.res = "Error"
    /\ dc.n = 0
    /\ \A i \in 1..Len(dc.reports) : dc.reports[i][1] < dc.reports[i][2]
    /\ \A e \in dc.entries : dc.pos[e] \notin {"todo", "failed"} => Written(fs, e)

\* Of three entries one was copied and counted before another one failed.
C16_Witness ==
  /\ dc.phase = "done"
  /\ dc.res = "Error"
  /\ dc.total = 3
  /\ dc.counter >= 1
  /\ \E e \in dc.entries : dc.pos[e] = "through" /\ Written(fs, e)
  /\ \E e \in dc.entries : dc.pos[e] = "failed" /\ ~Written(fs, e)

\* C17: a missing source is never an error: execute_operation of a Copy,
\* CopyGlob, Template, Overwrite or Unstaged operation that is not marked
\* will_skip, a single file through copy_file_with_progress or
\* overwrite_file_with_progress and a directory through
\* copy_directory_with_progress, returns Skipped whenever the source does
\* not exist, whatever is at the target and at its parent directories.
C17_MissingSourceSkipped ==
  \A i \in 1..Len(results) :
    (/\ ~results[i].op.will_skip
     /\ results[i].op.operation_type # "Symlink"
     /\ ~exists(results[i].before, results[i].op.source))
      => results[i].res = "Skipped"

\* The listed paths whose source exists on the filesystem planned on.
ListedAndPresent ==
  SelectSeq(unstaged, LAMBDA file : exists(planfs, main_worktree \o file))

\* C18: plan_unstaged_operations emits, in the order of the list, one
\* operation for every listed path whose source exists and none for a path
\* whose source is absent; every operation is of kind Unstaged with
\* file_count 1, no directory flag and no skip, its source the path below
\* the main worktree and its target the path below the target worktree.
C18_UnstagedPlanned ==
  pc = "execute_unstaged" =>
    /\ Len(OpsOfKind(plan, "Unstaged")) = Len(ListedAndPresent)
    /\ \A k \in 1..Len(ListedAndPresent) :
         OpsOfKind(plan, "Unstaged")[k]
           = [display_path |-> ListedAndPresent[k], operation_type |-> "Unstaged",
              source |-> main_worktree \o ListedAndPresent[k],
              target |-> target_worktree \o ListedAndPresent[k],
              file_count |-> 1, is_directory |-> FALSE, will_skip |-> FALSE,
              skip_reason |-> "none"]

\* Three paths listed, the second without a source: two operations, in
\* the order of the list.
C18_Witness ==
  /\ pc = "execute_unstaged"
  /\ Len(unstaged) = 3
  /\ ~exists(planfs, main_worktree \o unstaged[2])
  /\ Len(OpsOfKind(plan, "Unstaged")) = 2
  /\ OpsOfKind(plan, "Unstaged")[1].display_path = unstaged[1]
  /\ OpsOfKind(plan, "Unstaged")[2].display_path = unstaged[3]

\* C19: the configuration {symlinks: data, copy: config.json, overwrite:
\* settings.json} planned and executed from a main worktree with data/ (two
\* files), config.json and settings.json onto a target worktree with only a
\* differing settings.json yields, in order, Created for a symlink at
\* target/data that points at source/data, Created for target/config.json
\* with the source's content, and Overwritten for target/settings.json with
\* the source's content.
C19_EndToEnd ==
  (/\ config = ExampleConfig
   /\ run.n = 1
   /\ run.started = ExampleTree
   /\ pc # "plan") =>
    /\ pc \in {"execute", "done"}
    /\ Len(plan) = 3
    /\ \A i \in 1..Len(results) :
         results[i].res = <<"Created", "Created", "Overwritten">>[i]
    /\ Len(results) = 3 =>
         /\ is_symlink(fs, target_worktree \o <<"data">>)
         /\ read_link(fs, target_worktree \o <<"data">>) = main_worktree \o <<"data">>
         /\ read_to_string(fs, target_worktree \o <<"config.json">>)
              = read_to_string(ExampleTree, main_worktree \o <<"config.json">>)
         /\ read_to_string(fs, target_worktree \o <<"settings.json">>)
              = read_to_string(ExampleTree, main_worktree \o <<"settings.json">>)
         /\ read_to_string(ExampleTree, target_worktree \o <<"settings.json">>)
              # read_to_string(fs, target_worktree \o <<"settings.json">>)

\* The three operations of the example executed.
C19_Witness ==
  /\ config = ExampleConfig
  /\ run.n = 1
  /\ run.started = ExampleTree
  /\ pc = "done"
  /\ Len(results) = 3
  /\ results[3].res = "Overwritten"

\* C20: during one copy_directory call the files_copied values delivered
\* to the progress callback, in the order of the invocations across the
\* worker threads and the calling thread, never decrease, under every
\* interleaving of the workers.
C20_ReportsNeverDecrease ==
  \A i, j \in 1..Len(dc.reports) :
    i < j => dc.reports[i][1] <= dc.reports[j][1]

\* C21: in copy_directory every distinct parent directory of every
\* enumerated entry is a directory below the target before the first copy
\* of the parallel phase begins and for as long as the workers copy: no
\* worker copies into a directory that is not there.
C21_DirectoriesBeforeCopies ==
  dc.phase = "copying" =>
    /\ \A dir \in ParentDirs(dc.entries) : is_dir(fs, dir)
    /\ \A e \in dc.entries :
         /\ has_parent(e.target)
         /\ IsPrefix(dc.target, parent(e.target))
         /\ is_dir(fs, parent(e.target))

\* A directory with a nested entry onto a target whose parent is missing:
\* the target and the nested directory are there, made by copy_directory,
\* and a worker has copied the nested entry.
C21_Witness ==
  /\ dc.phase = "copying"
  /\ ~exists(dc.before, parent(dc.target))
  /\ \E e \in dc.entries :
       /\ parent(e.target) # dc.target
       /\ dc.pos[e] = "copied"
       /\ Written(fs, e)
       /\ ~exists(dc.before, parent(e.target))
  /\ \E e \in dc.entries : dc.pos[e] = "todo"

\* The entries whose copy is complete and counted: those taken less those
\* a thread has copied and not yet counted.
CountedEntries ==
  dc.taken - Cardinality({k \in 1..MaxWorkers : dc.worker[k].at = "copied"})

\* C22: in copy_directory with T entries, all of them copied, the shared
\* counter loses no update under any interleaving of the workers: the
\* counter is the number of entries copied and counted; every snapshot
\* delivered has files_total = T and files_copied <= T; a worker calls the
\* callback only when the counter value it read is a multiple of 100 or is
\* T; and when the call returns, a worker has reported files_copied = T and
\* the final report of the calling thread is (T, T).
C22_NoLostUpdate ==
  pc = "pool" =>
    /\ dc.counter = CountedEntries
    /\ dc.counter <= dc.total
    /\ \A i \in 1..Len(dc.reports) :
         dc.reports[i][2] = dc.total /\ dc.reports[i][1] <= dc.total
    /\ \A k \in 1..MaxWorkers :
         dc.worker[k].at \in {"reporting", "delivering"} =>
           (dc.worker[k].seen % ReportEvery = 0 \/ dc.worker[k].seen = dc.total)
    /\ dc.phase = "done" =>
         /\ dc.res = "Created"
         /\ Len(dc.reports) >= 3
         /\ dc.reports[1] = CopyProgress(dc.total, 0)
         /\ \E i \in 2..(Len(dc.reports) - 1) :
              dc.reports[i] = CopyProgress(dc.total, dc.total)
         /\ dc.reports[Len(dc.reports)] = CopyProgress(dc.total, dc.total)

\* A directory of one entry more than the cadence copied by two threads:
\* one reported at the cadence, one at the end, and the call returned.
C22_Witness ==
  /\ pc = "pool"
  /\ dc.phase = "done"
  /\ dc.total = ReportEvery + 1
  /\ dc.reports = <<CopyProgress(dc.total, 0), CopyProgress(dc.total, ReportEvery),
                    CopyProgress(dc.total, dc.total), CopyProgress(dc.total, dc.total)>>

\* The executions of an operation that is not marked will_skip, has the
\* directory flag and is of a kind that copies (the planner sets the flag
\* on no other kind).
DirectoryExecutions ==
  {i \in 1..Len(results) :
     /\ ~results[i].op.will_skip
     /\ results[i].op.is_directory
     /\ results[i].op.operation_type # "Symlink"}

\* C23: for an operation that is not skipped and has the directory flag,
\* whenever execute_operation returns without an error, with Created,
\* Exists or Skipped from the directory copy, its last call of the progress
\* callback is (file_count, file_count) with the operation's planned
\* file_count; when the directory copy fails that call is not made: the
\* callback saw at most the starting report of the copy.
C23_CompletionReport ==
  \A i \in DirectoryExecutions :
    /\ results[i].res \in {"Created", "Exists", "Skipped", "Error"}
    /\ results[i].res # "Error" =>
         /\ results[i].cb # <<>>
         /\ results[i].cb[Len(results[i].cb)]
              = <<results[i].op.file_count, results[i].op.file_count>>
    /\ results[i].res \in {"Exists", "Skipped"} =>
         results[i].cb = <<<<results[i].op.file_count, results[i].op.file_count>>>>
    /\ results[i].res = "Error" =>
         /\ Len(results[i].cb) <= 1
         /\ \A j \in 1..Len(results[i].cb) :
              results[i].cb[j][1] = 0 /\ results[i].cb[j][2] > 0

\* A directory copied, its completion reported after the reports of the
\* copy, and the same operation executed again: Exists, and the completion
\* reported all the same.
C23_Witness ==
  /\ Len(results) = 2
  /\ DirectoryExecutions = {1, 2}
  /\ results[1].res = "Created"
  /\ Len(results[1].cb) > 2
  /\ results[1].cb[Len(results[1].cb) - 1] # results[1].cb[Len(results[1].cb)]
  /\ results[2].res = "Exists"
  /\ results[2].cb = <<<<results[2].op.file_count, results[2].op.file_count>>>>

\* The executions of a directory overwrite: an Overwrite or Unstaged
\* operation, not marked will_skip, with the directory flag, whose source
\* and target both exist when it is executed.
DirectoryOverwrites ==
  {i \in DirectoryExecutions :
     /\ results[i].op.operation_type \in {"Overwrite", "Unstaged"}
     /\ exists(results[i].before, results[i].op.source)
     /\ exists(results[i].before, results[i].op.target)}

\* C24: executing an Overwrite or Unstaged operation that is not skipped,
\* has the directory flag and whose target already exists returns Exists
\* and changes nothing: nothing of the source directory is copied over the
\* target, whose entries are what they were.
C24_DirectoryOverwriteGap ==
  \A i \in DirectoryOverwrites :
    /\ results[i].res = "Exists"
    /\ results[i].after = results[i].before

\* An overwrite of the directory d whose file x differs in the target:
\* Exists, and the target's x is still not the source's.
C24_Witness ==
  \E i \in DirectoryOverwrites :
    /\ results[i].op.operation_type = "Overwrite"
    /\ is_dir(results[i].before, results[i].op.source)
    /\ is_dir(results[i].before, results[i].op.target)
    /\ results[i].res = "Exists"
    /\ read_to_string(results[i].after, results[i].op.target \o <<"x">>)
         # read_to_string(results[i].after, results[i].op.source \o <<"x">>)

\* The configuration has a malformed pattern in copyGlob.
HasBadPattern(cfg) ==
  \E i \in 1..Len(cfg.copy_glob) :
    \E j \in 1..Len(cfg.copy_glob[i]) : cfg.copy_glob[i][j] = BadPattern

\* C25: a malformed pattern in copyGlob makes plan_operations return an
\* error for the whole configuration: no operation is returned, neither
\* those of the symlink, copy and overwrite declarations and of the
\* patterns before the malformed one, nor a template; nothing is executed.
C25_BadPatternAbortsPlanning ==
  (HasBadPattern(config) /\ pc # "plan") =>
    /\ pc = "failed"
    /\ plan = <<>>
    /\ results = <<>>
    /\ fs = run.started

\* A pattern with a match ahead of the malformed one: planning failed with
\* no operation, the match of the first pattern included.
C25_Witness ==
  /\ pc = "failed"
  /\ plan = <<>>
  /\ results = <<>>
  /\ Len(config.copy_glob) = 2
  /\ config.copy_glob[2] = <<BadPattern>>
  /\ PlanGlob(fs, main_worktree, target_worktree, <<>>, config.copy_glob[1]).ok
  /\ PlanGlob(fs, main_worktree, target_worktree, <<>>, config.copy_glob[1]).ops # <<>>

\* The source tree: every entry at or below the main worktree.
SourceTree(f) ==
  [q \in Under(f, Rel(<<RootDir>>, main_worktree)) |-> f[q]]

\* C26: executing the operations of a plan in order never creates, deletes
\* or changes the content of an entry of the source tree, also when an
\* earlier symlink operation has linked a directory of the target to the
\* source and a later operation writes to a path below that directory.
C26_SourceTreeUntouched ==
  SourceTree(fs) = SourceTree(run.started)

\* The executions that went to one of the four functions of the operations
\* crate: those of an operation not marked will_skip.
WrapperExecutions == {i \in 1..Len(results) : ~results[i].op.will_skip}

\* C27: whenever create_symlink, copy_file_with_progress,
\* overwrite_file_with_progress or copy_directory_with_progress returns
\* Skipped or Exists, the filesystem is exactly as it was before the call:
\* the target path, its parent directories and the source.
C27_SkippedOrExistsChangesNothing ==
  /\ \A i \in WrapperExecutions :
       results[i].res \in {"Skipped", "Exists"} => results[i].after = results[i].before
  /\ \A i \in 1..Len(calls) :
       (calls[i].fn = "create_symlink" /\ calls[i].res \in {"Skipped", "Exists"})
         => calls[i].after = calls[i].before

\* Planning failed, or the plan was executed to its end or to an error.
PlanPathOver == pc = "failed" \/ (pc = "execute" /\ idx > Len(plan))

\* C28: apply_config and the plan/execute path are equivalent for a
\* configuration with copyUnstaged off: from the same trees, one fails
\* exactly when the other does, and otherwise apply_config has resolved
\* every declared entry to the source and target plan_operations resolved
\* it to, reports for it the result execute_operation returned for it, and
\* leaves the target tree that executing the plan in order leaves.
C28_ApplyEqualsPlanExecute ==
  (PlanPathOver /\ calls # <<>> /\ ~calls[1].copy_unstaged) =>
    /\ (calls[1].res = "Error") <=> (pc = "failed")
    /\ calls[1].res = "Ok" =>
         /\ Len(calls[1].records) = Len(plan)
         /\ \A k \in 1..Len(plan) :
              k <= Len(calls[1].records) =>
                /\ calls[1].records[k].source = plan[k].source
                /\ calls[1].records[k].target = plan[k].target
                /\ k <= Len(results) => calls[1].records[k].result = results[k].res
         /\ TargetTree(calls[1].after) = TargetTree(fs)

\* C29: for a directory operation that is not skipped and is executed on
\* the tree it was planned on, every (completed, total) pair delivered to
\* the callback of execute_operation has total equal to the operation's
\* planned file_count and completed at most file_count, for source trees
\* with plain files, symlinks and nested directories.
C29_ProgressMatchesPlan ==
  \A i \in DirectoryExecutions :
    OnPlannedState(results[i]) =>
      \A j \in 1..Len(results[i].cb) :
        /\ results[i].cb[j][2] = results[i].op.file_count
        /\ results[i].cb[j][1] <= results[i].op.file_count

\* The path with its ".." segments resolved against what precedes them.
RECURSIVE Normal(_, _)
Normal(done, rest) ==
  IF rest = <<>> THEN done
  ELSE IF Head(rest) = ParentDir
    THEN Normal(IF Len(done) > 1 THEN Front(done) ELSE done, Tail(rest))
  ELSE Normal(Append(done, Head(rest)), Tail(rest))

\* The path names a location strictly inside the root.
LocatedInside(p, root) ==
  IsPrefix(root, Normal(<<>>, p)) /\ Normal(<<>>, p) # root

\* C30: every operation plan_operations or plan_unstaged_operations emits
\* has its source inside the source root, its target inside the target
\* root, and a target that is not its source, for declared paths of any
\* spelling (several leading separators, ".." segments) and for a
\* configuration directory inside or outside the source root.
C30_OperationsStayInside ==
  \A i \in 1..Len(plan) :
    /\ LocatedInside(plan[i].source, main_worktree)
    /\ LocatedInside(plan[i].target, target_worktree)
    /\ plan[i].source # plan[i].target

====
